---------------------------- MODULE Spec2Model ----------------------------
(***************************************************************************)
(* Scene transition and portal subsystem of the isometric exploration      *)
(* game: Doorway / DoorwayManager (src/doorways.js), the scene registry    *)
(* (src/trophyEntity.js, second half) and VibePortalEntity                 *)
(* (src/unnamed/part_001).                                                 *)
(*                                                                         *)
(* Units.  Grid coordinates are in tenths of a grid unit (5.3 is 53).      *)
(* Wall-clock time, timer delays and deltaTime are in milliseconds         *)
(* (0.5 s is 500).  Text is a sequence of one-character strings.           *)
(***************************************************************************)
EXTENDS Integers, Sequences, FiniteSets, TLC

VARIABLES
    scenes,             \* the scene registry (sceneData.js), fixed after Init
    currentScene,       \* SceneManager's current scene id, or Null
    doorwaysByScene,    \* DoorwayManager.doorwaysByScene
    activeDoorways,     \* DoorwayManager.activeDoorways, as references <<scene, index>>
    transitionCooldown, \* DoorwayManager.transitionCooldown (ms)
    timers,             \* pending setTimeout callbacks of the doorways
    frame,              \* history: what the latest DoorwayManager.update call observed
    forceCalls,         \* history: number of forceDoorState calls so far
    player,             \* history: the player position of the latest update, when recorded
    portal,             \* a VibePortalEntity
    location,           \* window.location of the page: hostname and search
    selfUsername,       \* window.selfUsername (<< >> when not set)
    navTimers,          \* pending deferred navigation callbacks of enterPortal
    navigatedTo,        \* the URL assigned to window.location.href (<< >> when none)
    portalEvents,       \* the portal-entry events dispatched, in order
    messages,           \* number of showPortalMessage calls
    lastStep,           \* history: what the latest step of the portal did
    consumedKeys,       \* sceneIntegration's consumedKeys
    keysDown,           \* the keys input.isKeyPressed reports as pressed
    chordFired,         \* history: chords that called transitionTo since they were pressed
    lastRenderTime,     \* sceneIntegration's lastRenderTime
    clock,              \* Date.now()
    sceneRenderer,      \* whether initSceneSystem has set sceneRenderer
    sceneFrame,         \* history: what the latest updateScene call did
    manager,            \* a VibePortalManager: its game and what it has called and dispatched
    jukebox,            \* a JukeboxEntity
    tv,                 \* a TVEntity
    interactor,         \* a PortalEntity or TrophyEntity: its interaction state
    debugCtl,           \* debugControls' module state and the test runs
    enterDown,          \* whether the Enter key is down (the keyboard and window.input)
    hist                \* history: what the latest step of these components did

doorVars == <<scenes, currentScene, doorwaysByScene, activeDoorways,
              transitionCooldown, timers, frame, forceCalls, player>>

portalVars == <<portal, location, selfUsername, navTimers, navigatedTo, portalEvents,
                messages, lastStep>>

loopVars == <<consumedKeys, keysDown, chordFired, lastRenderTime, clock, sceneRenderer,
              sceneFrame>>

sideVars == <<manager, jukebox, tv, interactor, debugCtl, enterDown, hist>>

\* everything but the doorways' state, and everything but the portal's
notDoorVars == <<portalVars, loopVars, sideVars>>
notPortalVars == <<doorVars, loopVars, sideVars>>
notSideVars == <<doorVars, portalVars, loopVars>>

\* what VibePortalEntity.update leaves alone: all but the portal's state and,
\* through the portal-entry event, the manager's
notEntryVars == <<doorVars, loopVars, jukebox, tv, interactor, debugCtl, enterDown, hist>>

\* what the integration loop leaves alone: all but its own state and the
\* SceneManager's current scene
notLoopVars == <<scenes, doorwaysByScene, activeDoorways, transitionCooldown, timers,
                 forceCalls, player, portalVars, sideVars>>

vars == <<doorVars, portalVars, loopVars, sideVars>>

Undefined == "undefined"
Null == "null"

\* Values of Doorway.closeTimeout: never assigned, null, or a timer handle.
NoHandle == [kind |-> "undefined"]
NullHandle == [kind |-> "null"]
Handle(n) == [kind |-> "handle", id |-> n]

Abs(n) == IF n < 0 THEN -n ELSE n
Max(a, b) == IF a >= b THEN a ELSE b

\* ------------------------------------------------------------------------
\* Bounds of the model (not program constants)
\* ------------------------------------------------------------------------

\* wall-clock time passes in steps of TickMs milliseconds
TickMs == 400

\* the debugging helper forceDoorState is called at most MaxForceCalls times
MaxForceCalls == 1

\* ------------------------------------------------------------------------
\* Program constants
\* ------------------------------------------------------------------------

ProximityThreshold == 30
WallLimit == 50
CloseDelay == 800
CooldownAfterTransition == 500
GridCells == 16

\* ------------------------------------------------------------------------
\* Scene registry
\* ------------------------------------------------------------------------

\* An exit entry; grid is <<gridX, gridY>>, or << >> when the entry has none.
Exit(direction, to, posX, posY, grid, comingSoon) ==
    [direction |-> direction, to |-> to, posX |-> posX, posY |-> posY,
     grid |-> grid, comingSoon |-> comingSoon]

\* The registry shipped with the game, in key order.
ShippedScenes ==
    << [id |-> "startRoom", width |-> 400, height |-> 300,
        exits |-> << Exit("north", "https://aialchemistart.github.io/Circuit-Sanctum-Arcade/",
                          200, 0, <<80, 0>>, FALSE),
                     Exit("east", "comingSoon", 400, 150, <<0, 53>>, TRUE) >>],
       [id |-> "circuitSanctum", width |-> 800, height |-> 600,
        exits |-> << Exit("south", "startRoom", 400, 600, <<80, 140>>, FALSE) >>],
       [id |-> "neonPhylactery", width |-> 800, height |-> 600,
        exits |-> << Exit("west", "startRoom", 0, 300, <<140, 63>>, FALSE) >>] >>

\* A registry in the same format whose exits are not all cardinal: floor
\* portals, one of them flagged comingSoon, one without a target, one
\* without grid coordinates (derived from its pixel position).
PortalScenes ==
    << [id |-> "hub", width |-> 400, height |-> 400,
        exits |-> << Exit("portal", "annex", 100, 100, <<40, 40>>, FALSE),
                     Exit("portal", "comingSoon", 150, 100, <<60, 40>>, TRUE),
                     Exit("down", Undefined, 300, 300, <<120, 120>>, FALSE),
                     Exit("north", "annex", 200, 0, <<80, 0>>, FALSE) >>],
       [id |-> "annex", width |-> 800, height |-> 800,
        exits |-> << Exit("up", "hub", 200, 300, << >>, FALSE) >>] >>

Registries == {ShippedScenes, PortalScenes}

SceneIds(reg) == {reg[k].id : k \in 1..Len(reg)}
SceneById(reg, id) == reg[CHOOSE k \in 1..Len(reg) : reg[k].id = id]

\* Player grid positions (tenths) the frames are run with.
PlayerPositions ==
    { <<80, 10>>, <<80, 30>>, <<0, 50>>, <<50, 40>>, <<80, 40>>,
      <<120, 130>>, <<50, 55>> }

\* deltaTime values (ms) passed to DoorwayManager.update
DeltaTimes == {200, 300}

\* ------------------------------------------------------------------------
\* Doorway
\* ------------------------------------------------------------------------

\* (mutant) only north and south count as cardinal
IsCardinalNorthSouth(direction) == direction \in {"north", "south"}

\* (mutant) every direction counts as cardinal
IsCardinalAny(direction) == TRUE

IsCardinal(direction) == direction \in {"north", "south", "east", "west"}

\* new Doorway(direction, targetScene, x, y): isOpen false, not a wall
\* doorway, wallSide null, grid (0,0); closeTimeout and id are not assigned
\* (id is << >> until processDoorway names the doorway).
NewDoorway(direction, targetScene, x, y) ==
    [direction |-> direction, targetScene |-> targetScene, x |-> x, y |-> y,
     isOpen |-> FALSE, isWallDoorway |-> FALSE, wallSide |-> Null,
     gridX |-> 0, gridY |-> 0, closeTimeout |-> NoHandle, id |-> << >>]

\* The body of scene.exits.forEach in initDoorways.
DoorwayOfExit(scene, exit) ==
    LET gridX == IF exit.grid # << >> THEN exit.grid[1]
                 ELSE (exit.posX * GridCells * 10) \div scene.width
        gridY == IF exit.grid # << >> THEN exit.grid[2]
                 ELSE (exit.posY * GridCells * 10) \div scene.height
        d0 == NewDoorway(exit.direction, exit.to, exit.posX, exit.posY)
        d1 == [d0 EXCEPT !.gridX = gridX, !.gridY = gridY]
        d2 == IF IsCardinal(exit.direction)
              THEN [d1 EXCEPT !.isWallDoorway = TRUE,
                              !.wallSide = IF exit.direction \in {"north", "south"}
                                           THEN "north" ELSE "west"]
              ELSE d1
        d3 == IF scene.id = "startRoom" /\ exit.direction = "east"
              THEN [d2 EXCEPT !.wallSide = "west", !.gridX = 0, !.gridY = 53]
              ELSE d2
        d4 == IF scene.id = "neonPhylactery" /\ exit.direction = "west"
              THEN [d3 EXCEPT !.wallSide = "west", !.gridX = 140, !.gridY = 63]
              ELSE d3
    IN d4

\* DoorwayManager.initDoorways: one doorway per exit of every scene.
InitDoorways(reg) ==
    [id \in SceneIds(reg) |->
        LET scene == SceneById(reg, id)
        IN [k \in 1..Len(scene.exits) |-> DoorwayOfExit(scene, scene.exits[k])]]

\* (mutant) the proximity test with an inclusive bound
IsPlayerCollidingInclusive(door, playerX, playerY) ==
    LET dx == Abs(door.gridX - playerX)
        dy == Abs(door.gridY - playerY)
    IN IF door.isWallDoorway /\ door.wallSide = "north" /\ playerY > WallLimit THEN FALSE
       ELSE IF door.isWallDoorway /\ door.wallSide = "west" /\ playerX > WallLimit THEN FALSE
       ELSE dx * dx + dy * dy <= ProximityThreshold * ProximityThreshold

\* Where the doubles of isPlayerColliding depart from the exact distance:
\* <<gridX, gridY, playerX, playerY>>, in tenths, at exact distance 3.0 whose
\* computed distance is below 3.0.  8.4 - 10.2 is -1.799999999999999 in
\* doubles, and Math.sqrt(dx*dx + dy*dy) with dy = 2.4 is 2.9999999999999996.
\* For the doorways of the registries and of ProcessedDoorways and every
\* position in tenths from -30.0 to 50.0 these are the only departures.
RoundsBelowThreshold == {<<84, 0, 102, 24>>, <<84, 0, 102, -24>>}

\* Doorway.isPlayerColliding: distance < 3.0, with the wall constraints.
IsPlayerColliding(door, playerX, playerY) ==
    LET dx == Abs(door.gridX - playerX)
        dy == Abs(door.gridY - playerY)
    IN IF door.isWallDoorway /\ door.wallSide = "north" /\ playerY > WallLimit THEN FALSE
       ELSE IF door.isWallDoorway /\ door.wallSide = "west" /\ playerX > WallLimit THEN FALSE
       ELSE \/ dx * dx + dy * dy < ProximityThreshold * ProximityThreshold
            \/ <<door.gridX, door.gridY, playerX, playerY>> \in RoundsBelowThreshold

\* --- timers (window.setTimeout / clearTimeout) ---
\* A pending timer: its handle, the doorway whose close callback it runs, the
\* time left, and (history) whether an update has reported the player near
\* that doorway since it was scheduled.

Truthy(h) == h.kind = "handle"

\* References <<scene, index>> to every doorway of doorwaysByScene.
AllRefs(dbs) == UNION {{<<s, k>> : k \in DOMAIN dbs[s]} : s \in DOMAIN dbs}

\* setTimeout returns a handle that no pending timer and no doorway holds.
\* A handle is named <<scene, index, n>> after the doorway that asked for it,
\* with n the least number that doorway has not in use.
UsedNumbers(tm, ref, door) ==
    {t.id[3] : t \in {u \in tm : u.door = ref}} \cup
    (IF Truthy(door.closeTimeout) THEN {door.closeTimeout.id[3]} ELSE {})

FreshHandle(tm, ref, door) ==
    LET used == UsedNumbers(tm, ref, door)
        n == CHOOSE c \in 1..(Cardinality(used) + 1) :
                c \notin used /\ \A m \in 1..(c - 1) : m \in used
    IN <<ref[1], ref[2], n>>

SetTimeout(tm, ref, handle) ==
    tm \cup {[id |-> handle, door |-> ref, remaining |-> CloseDelay, nearSince |-> FALSE]}

ClearTimeout(tm, handle) == {t \in tm : t.id # handle.id}

\* (mutant) a closed door with a pending close only has the close cancelled
DoorwayUpdateCancelOnly(door, ref, isPlayerNear, tm, handle) ==
    IF door.isWallDoorway
    THEN IF isPlayerNear /\ ~door.isOpen
         THEN IF Truthy(door.closeTimeout)
              THEN [door |-> [door EXCEPT !.closeTimeout = NullHandle],
                    timers |-> ClearTimeout(tm, door.closeTimeout)]
              ELSE [door |-> [door EXCEPT !.isOpen = TRUE], timers |-> tm]
         ELSE IF ~isPlayerNear /\ door.isOpen
              THEN IF ~Truthy(door.closeTimeout)
                   THEN [door |-> [door EXCEPT !.closeTimeout = Handle(handle)],
                         timers |-> SetTimeout(tm, ref, handle)]
                   ELSE [door |-> door, timers |-> tm]
              ELSE [door |-> door, timers |-> tm]
    ELSE [door |-> door, timers |-> tm]

\* (mutant) the close is scheduled without looking at closeTimeout
DoorwayUpdateReschedule(door, ref, isPlayerNear, tm, handle) ==
    IF door.isWallDoorway
    THEN IF isPlayerNear /\ ~door.isOpen
         THEN IF Truthy(door.closeTimeout)
              THEN [door |-> [door EXCEPT !.isOpen = TRUE, !.closeTimeout = NullHandle],
                    timers |-> ClearTimeout(tm, door.closeTimeout)]
              ELSE [door |-> [door EXCEPT !.isOpen = TRUE], timers |-> tm]
         ELSE IF ~isPlayerNear /\ door.isOpen
              THEN [door |-> [door EXCEPT !.closeTimeout = Handle(handle)],
                    timers |-> SetTimeout(tm, ref, handle)]
              ELSE [door |-> door, timers |-> tm]
    ELSE [door |-> door, timers |-> tm]

\* (mutant) the open/close transitions without the wall-doorway test
DoorwayUpdateAnyDoorway(door, ref, isPlayerNear, tm, handle) ==
    IF isPlayerNear /\ ~door.isOpen
    THEN IF Truthy(door.closeTimeout)
         THEN [door |-> [door EXCEPT !.isOpen = TRUE, !.closeTimeout = NullHandle],
               timers |-> ClearTimeout(tm, door.closeTimeout)]
         ELSE [door |-> [door EXCEPT !.isOpen = TRUE], timers |-> tm]
    ELSE IF ~isPlayerNear /\ door.isOpen
         THEN IF ~Truthy(door.closeTimeout)
              THEN [door |-> [door EXCEPT !.closeTimeout = Handle(handle)],
                    timers |-> SetTimeout(tm, ref, handle)]
              ELSE [door |-> door, timers |-> tm]
         ELSE [door |-> door, timers |-> tm]


\* Doorway.update(deltaTime, isPlayerNear): the doorway and the timers after it.
DoorwayUpdate(door, ref, isPlayerNear, tm, handle) ==
    IF door.isWallDoorway
    THEN IF isPlayerNear /\ ~door.isOpen
         THEN IF Truthy(door.closeTimeout)
              THEN [door |-> [door EXCEPT !.isOpen = TRUE, !.closeTimeout = NullHandle],
                    timers |-> ClearTimeout(tm, door.closeTimeout)]
              ELSE [door |-> [door EXCEPT !.isOpen = TRUE], timers |-> tm]
         ELSE IF ~isPlayerNear /\ door.isOpen
              THEN IF ~Truthy(door.closeTimeout)
                   THEN [door |-> [door EXCEPT !.closeTimeout = Handle(handle)],
                         timers |-> SetTimeout(tm, ref, handle)]
                   ELSE [door |-> door, timers |-> tm]
              ELSE [door |-> door, timers |-> tm]
    ELSE [door |-> door, timers |-> tm]

\* (mutant) the callback forgets the handle and leaves the door open
CloseCallbackLeavesOpen(door) == [door EXCEPT !.closeTimeout = NullHandle]

\* (mutant) the callback replaces the doorway by a fresh one
CloseCallbackRebuild(door) ==
    [NewDoorway(door.direction, door.targetScene, door.x, door.y)
        EXCEPT !.isWallDoorway = door.isWallDoorway, !.wallSide = door.wallSide,
               !.closeTimeout = NullHandle]

\* The callback of the close timer: isOpen = false, closeTimeout = null.
CloseCallback(door) == [door EXCEPT !.isOpen = FALSE, !.closeTimeout = NullHandle]

\* ------------------------------------------------------------------------
\* SceneManager (sceneManager.js is not part of the sources: modelled from
\* the specification: it holds the current scene and swaps it on loadScene)
\* ------------------------------------------------------------------------

SceneManagerLoadScene(reg, current, target) ==
    IF target \in SceneIds(reg) THEN target ELSE current

\* ------------------------------------------------------------------------
\* DoorwayManager
\* ------------------------------------------------------------------------

\* frame: whether the latest step was an update call, the doorways it found
\* near and not near, those it opened, and its loadScene calls in order.
NoFrame == [called |-> FALSE, near |-> {}, far |-> {}, opened |-> {}, loads |-> <<>>,
            deltaTime |-> 0, cooldownBefore |-> 0]

\* The list this.doorwaysByScene[currentScene.id] || [], as references.
DoorwaysOf(dbs, id) ==
    IF id \in DOMAIN dbs THEN [k \in 1..Len(dbs[id]) |-> <<id, k>>] ELSE <<>>

\* (mutant) the transition test without the cooldown
ShouldTransitionNoCooldown(cooldown, isPlayerNear, door) ==
    isPlayerNear /\ ~door.isWallDoorway

\* (mutant) the transition test without the wall-doorway exclusion
ShouldTransitionAnyDoorway(cooldown, isPlayerNear, door) ==
    cooldown <= 0 /\ isPlayerNear

\* The transition test of update: cooldown expired, player near, floor portal.
ShouldTransition(cooldown, isPlayerNear, door) ==
    cooldown <= 0 /\ isPlayerNear /\ ~door.isWallDoorway

\* One iteration of activeDoorways.forEach in update, on the running state
\* st = [dbs, tm, cooldown, current, fr].
UpdateDoorway(st, reg, ref, playerX, playerY) ==
    LET door == st.dbs[ref[1]][ref[2]]
        isPlayerNear == IsPlayerColliding(door, playerX, playerY)
        upd == DoorwayUpdate(door, ref, isPlayerNear, st.tm, FreshHandle(st.tm, ref, door))
        tm1 == {IF t.door = ref /\ isPlayerNear THEN [t EXCEPT !.nearSince = TRUE] ELSE t
                : t \in upd.timers}
        go == ShouldTransition(st.cooldown, isPlayerNear, upd.door)
        cooldown1 == IF go THEN CooldownAfterTransition ELSE st.cooldown
        fr1 == [st.fr EXCEPT
                  !.near = IF isPlayerNear THEN @ \cup {ref} ELSE @,
                  !.far = IF isPlayerNear THEN @ ELSE @ \cup {ref},
                  !.opened = IF upd.door.isOpen /\ ~door.isOpen THEN @ \cup {ref} ELSE @,
                  !.loads = IF go
                            THEN Append(@, [door |-> ref, target |-> upd.door.targetScene,
                                            cooldownAtCheck |-> st.cooldown,
                                            isPlayerNear |-> isPlayerNear,
                                            isWallDoorway |-> upd.door.isWallDoorway,
                                            cooldownAfter |-> cooldown1])
                            ELSE @]
    IN [dbs |-> [st.dbs EXCEPT ![ref[1]][ref[2]] = upd.door],
        tm |-> tm1,
        cooldown |-> cooldown1,
        current |-> IF go THEN SceneManagerLoadScene(reg, st.current, upd.door.targetScene)
                    ELSE st.current,
        fr |-> fr1]

RECURSIVE UpdateLoop(_, _, _, _, _, _)
UpdateLoop(st, reg, refs, k, playerX, playerY) ==
    IF k > Len(refs) THEN st
    ELSE UpdateLoop(UpdateDoorway(st, reg, refs[k], playerX, playerY),
                    reg, refs, k + 1, playerX, playerY)

\* (mutant) the cooldown is decreased in every update
DecreaseCooldownAlways(cooldown, deltaTime) == cooldown - deltaTime

\* update: if (this.transitionCooldown > 0) this.transitionCooldown -= deltaTime
DecreaseCooldown(cooldown, deltaTime) ==
    IF cooldown > 0 THEN cooldown - deltaTime ELSE cooldown

\* DoorwayManager.update(deltaTime, playerX, playerY, scene)
Update(deltaTime, playerX, playerY) ==
    LET cooldown1 == DecreaseCooldown(transitionCooldown, deltaTime)
        called == [NoFrame EXCEPT !.called = TRUE, !.deltaTime = deltaTime,
                                  !.cooldownBefore = transitionCooldown]
    IN IF currentScene = Null
       THEN /\ transitionCooldown' = cooldown1
            /\ frame' = called
            /\ UNCHANGED <<scenes, currentScene, doorwaysByScene, activeDoorways, timers,
                           forceCalls>>
       ELSE LET active == DoorwaysOf(doorwaysByScene, currentScene)
                st0 == [dbs |-> doorwaysByScene, tm |-> timers, cooldown |-> cooldown1,
                        current |-> currentScene, fr |-> called]
                st == UpdateLoop(st0, scenes, active, 1, playerX, playerY)
            IN /\ activeDoorways' = active
               /\ doorwaysByScene' = st.dbs
               /\ timers' = st.tm
               /\ transitionCooldown' = st.cooldown
               /\ currentScene' = st.current
               /\ frame' = st.fr
               /\ UNCHANGED <<scenes, forceCalls>>

\* DoorwayManager.forceDoorState(sceneId, wallSide, doorPosition, open)
ForceDoor(door, wallSide, doorPosition, open) ==
    IF door.isWallDoorway /\ door.wallSide = wallSide
    THEN IF wallSide = "north" /\ door.gridX = doorPosition
         THEN [door EXCEPT !.isOpen = open]
         ELSE IF wallSide = "west" /\ door.gridY = doorPosition
              THEN [door EXCEPT !.isOpen = open]
              ELSE door
    ELSE door

ForceDoorState(sceneId, wallSide, doorPosition, open) ==
    /\ forceCalls < MaxForceCalls
    /\ forceCalls' = forceCalls + 1
    /\ doorwaysByScene' =
          IF sceneId \in DOMAIN doorwaysByScene
          THEN [doorwaysByScene EXCEPT ![sceneId] =
                   [k \in DOMAIN @ |-> ForceDoor(@[k], wallSide, doorPosition, open)]]
          ELSE doorwaysByScene
    /\ doorwaysByScene' # doorwaysByScene
    /\ frame' = NoFrame
    /\ UNCHANGED notDoorVars
    /\ UNCHANGED <<scenes, currentScene, activeDoorways, transitionCooldown, timers, player>>

\* bound: processDoorway calls per run
MaxProcessed == 1

\* the scene names processDoorway is called with: the registry's first scene
\* and a name the registry does not have
ProcessedSceneNames(reg) == {reg[1].id, "attic"}

\* the doorways it is called with: Doorway instances as constructed (a floor
\* portal at grid (0,0))
ProcessedDoorways == {NewDoorway("portal", "x", 0, 0)}

\* the property `to` of the object passed: a Doorway as constructed has none;
\* the caller may have set one, here the registry's last scene
ProcessedTargets(reg) == {Undefined, reg[Len(reg)].id}

\* The doorway as processDoorway pushes it: named doorway_<scene>_<length>
\* unless it has an id, its targetScene overwritten with its property `to`.
ProcessedDoorway(dbs, sceneName, doorway, to) ==
    [doorway EXCEPT
        !.id = IF @ = << >>
               THEN <<sceneName, IF sceneName \in DOMAIN dbs THEN Len(dbs[sceneName]) ELSE 0>>
               ELSE @,
        !.targetScene = to]

\* DoorwayManager.processDoorway(sceneName, doorway), the doorway's property
\* `to` given apart.  activeDoorways is the very array update took from
\* doorwaysByScene, so a push to that scene's array extends it too (every
\* array of doorwaysByScene is non-empty; an empty activeDoorways is the
\* constructor's or the `|| []` of update, an array of its own).
ProcessDoorway(sceneName, doorway, to) ==
    /\ Cardinality(AllRefs(doorwaysByScene))
          < Cardinality(AllRefs(InitDoorways(scenes))) + MaxProcessed
    /\ activeDoorways' =
          IF activeDoorways # << >> /\ activeDoorways[1][1] = sceneName
          THEN Append(activeDoorways, <<sceneName, Len(doorwaysByScene[sceneName]) + 1>>)
          ELSE activeDoorways
    /\ doorwaysByScene' =
          LET d == ProcessedDoorway(doorwaysByScene, sceneName, doorway, to)
          IN [id \in DOMAIN doorwaysByScene \cup {sceneName} |->
                 IF id \notin DOMAIN doorwaysByScene THEN <<d>>
                 ELSE IF id = sceneName THEN Append(doorwaysByScene[id], d)
                 ELSE doorwaysByScene[id]]
    /\ frame' = NoFrame
    /\ UNCHANGED notDoorVars
    /\ UNCHANGED <<scenes, currentScene, transitionCooldown, timers, forceCalls, player>>

\* The close timer's callback runs once its delay has passed.
CloseTimerFires(t) ==
    /\ t \in timers
    /\ t.remaining = 0
    /\ doorwaysByScene' = [doorwaysByScene EXCEPT ![t.door[1]][t.door[2]] = CloseCallback(@)]
    /\ timers' = timers \ {t}
    /\ frame' = NoFrame
    /\ UNCHANGED notDoorVars
    /\ UNCHANGED <<scenes, currentScene, activeDoorways, transitionCooldown, forceCalls,
                   player>>

\* TickMs of wall-clock time pass.
AdvanceTime ==
    /\ \E t \in timers : t.remaining > 0
    /\ timers' = {[t EXCEPT !.remaining = Max(0, @ - TickMs)] : t \in timers}
    /\ frame' = NoFrame
    /\ UNCHANGED notDoorVars
    /\ UNCHANGED <<scenes, currentScene, doorwaysByScene, activeDoorways, transitionCooldown,
                   forceCalls, player>>

\* Another component (initSceneSystem, a Shift+letter transition) has the
\* SceneManager load a scene.
SceneLoaded(id) ==
    /\ id # currentScene
    /\ currentScene' = SceneManagerLoadScene(scenes, currentScene, id)
    /\ frame' = NoFrame
    /\ UNCHANGED notDoorVars
    /\ UNCHANGED <<scenes, doorwaysByScene, activeDoorways, transitionCooldown, timers,
                   forceCalls, player>>

DoorPositions == {0, 53, 63, 80, 140}

\* ------------------------------------------------------------------------
\* Text, and URLSearchParams (application/x-www-form-urlencoded)
\* ------------------------------------------------------------------------

StartsWith(s, prefix) == Len(s) >= Len(prefix) /\ SubSeq(s, 1, Len(prefix)) = prefix
Drop(s, n) == SubSeq(s, n + 1, Len(s))

\* position of the first c in s, 0 when there is none
FirstIndex(s, c) ==
    IF \E i \in 1..Len(s) : s[i] = c
    THEN CHOOSE i \in 1..Len(s) : s[i] = c /\ \A j \in 1..(i - 1) : s[j] # c
    ELSE 0

RECURSIVE Split(_, _)
Split(s, c) ==
    LET i == FirstIndex(s, c)
    IN IF i = 0 THEN <<s>> ELSE <<SubSeq(s, 1, i - 1)>> \o Split(Drop(s, i), c)

\* The characters the serializer escapes, with their escapes; letters,
\* digits and * - . _ are kept, a space becomes +.
Escapes ==
    { <<":", "3", "A">>, <<"/", "2", "F">>, <<"?", "3", "F">>, <<"=", "3", "D">>,
      <<"&", "2", "6">>, <<"%", "2", "5">>, <<"+", "2", "B">>, <<"[", "5", "B">>,
      <<"]", "5", "D">>, <<"#", "2", "3">> }

EncodeChar(c) ==
    IF c = " " THEN <<"+">>
    ELSE IF \E e \in Escapes : e[1] = c
         THEN LET e == CHOOSE e \in Escapes : e[1] = c IN <<"%", e[2], e[3]>>
         ELSE <<c>>

RECURSIVE FormEncode(_)
FormEncode(s) == IF s = << >> THEN << >> ELSE EncodeChar(Head(s)) \o FormEncode(Tail(s))

\* Percent-decoding of the parser: + is a space, %XY the escaped character
\* (the escapes of Escapes and %20; the inputs of the model use no other).
Unescapes == Escapes \cup { <<" ", "2", "0">> }

RECURSIVE FormDecode(_)
FormDecode(s) ==
    IF s = << >> THEN << >>
    ELSE IF Head(s) = "+" THEN <<" ">> \o FormDecode(Tail(s))
    ELSE IF Head(s) = "%" /\ Len(s) >= 3 /\ \E e \in Unescapes : e[2] = s[2] /\ e[3] = s[3]
         THEN <<(CHOOSE e \in Unescapes : e[2] = s[2] /\ e[3] = s[3])[1]>>
              \o FormDecode(Drop(s, 3))
         ELSE <<Head(s)>> \o FormDecode(Tail(s))

NonEmpty(s) == s # << >>

\* one name=value piece of a query string, as <<name, value>>
ParsePair(piece) ==
    LET i == FirstIndex(piece, "=")
    IN IF i = 0 THEN <<FormDecode(piece), << >> >>
       ELSE <<FormDecode(SubSeq(piece, 1, i - 1)), FormDecode(Drop(piece, i))>>

\* new URLSearchParams(init): the list of <<name, value>> pairs of a query string
URLSearchParams(init) ==
    LET body == IF init # << >> /\ Head(init) = "?" THEN Tail(init) ELSE init
        pieces == SelectSeq(Split(body, "&"), NonEmpty)
    IN [k \in 1..Len(pieces) |-> ParsePair(pieces[k])]

\* URLSearchParams.toString()
RECURSIVE ParamsToString(_)
ParamsToString(pairs) ==
    IF pairs = << >> THEN << >>
    ELSE FormEncode(pairs[1][1]) \o <<"=">> \o FormEncode(pairs[1][2])
         \o (IF Len(pairs) > 1 THEN <<"&">> \o ParamsToString(Tail(pairs)) ELSE << >>)

\* URLSearchParams.get(name): the first value of that name (found is FALSE for null)
ParamsGet(pairs, name) ==
    IF \E k \in 1..Len(pairs) : pairs[k][1] = name
    THEN [found |-> TRUE,
          value |-> pairs[CHOOSE k \in 1..Len(pairs) :
                             pairs[k][1] = name /\ \A j \in 1..(k - 1) : pairs[j][1] # name][2]]
    ELSE [found |-> FALSE, value |-> << >>]

KeyPortal == <<"p", "o", "r", "t", "a", "l">>
KeyRef == <<"r", "e", "f">>
KeyUsername == <<"u", "s", "e", "r", "n", "a", "m", "e">>
TextTrue == <<"t", "r", "u", "e">>
SchemeHttp == <<"h", "t", "t", "p", ":", "/", "/">>
SchemeHttps == <<"h", "t", "t", "p", "s", ":", "/", "/">>
DefaultTargetUrl == <<"h", "t", "t", "p", "s", ":", "/", "/", "p", "o", "r", "t", "a", "l", ".", "p", "i", "e", "t", "e", "r", ".", "c", "o", "m">>
FallbackDomain == <<"a", "l", "c", "h", "e", "m", "i", "s", "t", "s", "l", "a", "i", "r", ".", "l", "o", "c", "a", "l">>

\* ------------------------------------------------------------------------
\* VibePortalEntity
\* ------------------------------------------------------------------------

\* bounds: accepted entries per run
MaxEntries == 2

EntryCooldownMs == 2000
NavigationDelayMs == 1000
DefaultInteractionDistance == 30
DefaultEntryDetectionRange == 15

\* the height (tenths) up to which the player counts as on the ground
GroundedMaxZ == 1

\* Inputs: constructor options, the page's location, the identity value,
\* and the player's distance (tenths) in a frame.
PortalTypeOptions == {Undefined, "start", "exit"}
TargetUrlOptions == { << >>, <<"h", "t", "t", "p", "s", ":", "/", "/", "v", ".", "i", "o">> }
Hostnames == { << >>, <<"m", "y", ".", "i", "o">>, <<"[", ":", ":", "1", "]">> }
Searches ==
    { << >>,
      <<"?", "x", "=", "1">>,
      <<"?", "r", "e", "f", "=", "f", "o", "o", ".", "c", "o", "m", "&", "x", "=", "1">>,
      <<"?", "r", "e", "f", "=", "h", "t", "t", "p", ":", "/", "/", "a", ".", "i", "o">>,
      <<"?", "r", "e", "f", "=">>,
      <<"?", "r", "e", "f", "=", "&", "x", "=", "1">>,
      <<"?", "y", "&", "r", "e", "f", "=", "f", "o", "o", ".", "c", "o", "m", "&", "x", "=", "a", "+", "b">>,
      <<"?", "r", "e", "f", "=", "h", "t", "t", "p", "s", "%", "3", "A", "%", "2", "F", "%", "2", "F", "b", ".", "i", "o", "&", "x", "=", "1", "%", "2", "6", "2", "&", "r", "e", "f", "=", "c", ".", "i", "o">> }
\* the query strings of the pages in the runs with fairness
FairSearches == { << >>, <<"?", "r", "e", "f", "=", "a">> }
Usernames == { << >>, <<"b", "o", "b">>, <<"a", " ", "b">> }
PlayerDistances == {10, 20, 40}

\* the player's height z (tenths) in a frame: on the ground, at 0.1, in a jump
PlayerHeights == {0, 1, 5}

\* lastStep when the latest step was neither an enterPortal call nor a
\* deferred step
NoStep == [kind |-> "none"]

\* new VibePortalEntity(x, y, z, options)
NewVibePortal(typeOption, targetUrlOption) ==
    [portalType |-> IF typeOption # Undefined THEN typeOption ELSE "exit",
     isActive |-> TRUE,
     targetUrl |-> IF targetUrlOption # << >> THEN targetUrlOption ELSE DefaultTargetUrl,
     interactionDistance |-> DefaultInteractionDistance,
     isPlayerNearby |-> FALSE,
     entryDetectionRange |-> DefaultEntryDetectionRange,
     lastEntry |-> [set |-> FALSE, age |-> 0]]

\* The constructor's two range options (tenths; 0 for an option that is
\* absent or 0, both of which select the default).
RangeOptions == {0, 10, 50}

\* the constructor's interactionDistance and entryDetectionRange, from options
WithRanges(p, interactionOption, entryOption) ==
    [p EXCEPT !.interactionDistance = IF interactionOption # 0 THEN interactionOption
                                      ELSE DefaultInteractionDistance,
              !.entryDetectionRange = IF entryOption # 0 THEN entryOption
                                      ELSE DefaultEntryDetectionRange]

\* (mutant) the ref parameter is added for start portals instead of exit portals
OutboundParamsRefOnStart(portalType, hostname, username) ==
    <<<<KeyPortal, TextTrue>>>>
    \o (IF portalType = "start"
        THEN <<<<KeyRef, IF hostname # << >> THEN hostname ELSE FallbackDomain>>>>
        ELSE << >>)
    \o (IF username # << >> THEN <<<<KeyUsername, username>>>> ELSE << >>)

\* (mutant) the username parameter is appended whether or not an identity is set
OutboundParamsUsernameAlways(portalType, hostname, username) ==
    <<<<KeyPortal, TextTrue>>>>
    \o (IF portalType = "exit"
        THEN <<<<KeyRef, IF hostname # << >> THEN hostname ELSE FallbackDomain>>>>
        ELSE << >>)
    \o <<<<KeyUsername, username>>>>

\* enterPortal: the parameters of the outbound URL
OutboundParams(portalType, hostname, username) ==
    <<<<KeyPortal, TextTrue>>>>
    \o (IF portalType = "exit"
        THEN <<<<KeyRef, IF hostname # << >> THEN hostname ELSE FallbackDomain>>>>
        ELSE << >>)
    \o (IF username # << >> THEN <<<<KeyUsername, username>>>> ELSE << >>)

\* enterPortal: nextPage
NextPage(targetUrl, params) ==
    LET paramString == ParamsToString(params)
    IN targetUrl \o (IF paramString # << >> THEN <<"?">> \o paramString ELSE << >>)

\* the deferred step of a start portal: the referrer with its scheme
RefWithScheme(refUrl) ==
    IF ~StartsWith(refUrl, SchemeHttp) /\ ~StartsWith(refUrl, SchemeHttps)
    THEN SchemeHttps \o refUrl
    ELSE refUrl

IsNotRef(pair) == pair[1] # KeyRef

\* (mutant) every current parameter is forwarded, ref included
ForwardedParamsAll(currentParams) == currentParams

\* the deferred step of a start portal: the parameters kept, all but ref
ForwardedParams(currentParams) == SelectSeq(currentParams, IsNotRef)

\* (mutant) a start portal sends the player to its configured targetUrl
RefDestinationConfigured(refUrl, search) ==
    NextPage(portal.targetUrl, ForwardedParams(URLSearchParams(search)))

\* the deferred step of a start portal: fullUrl
RefDestination(refUrl, search) ==
    LET paramString == ParamsToString(ForwardedParams(URLSearchParams(search)))
    IN RefWithScheme(refUrl) \o (IF paramString # << >> THEN <<"?">> \o paramString ELSE << >>)

\* (mutant) no entry is ever too soon after the last one
InCooldownNever(lastEntry) == FALSE

\* (mutant) after one accepted entry every later one is too soon
InCooldownForever(lastEntry) == lastEntry.set

(***************************************************************************)
(* VibePortalManager (src/vibePortalManager.js): the listener the          *)
(* constructor registers for the portals' portal-entry events.             *)
(***************************************************************************)

\* bound: portal-entry events handled per run
MaxHandled == 3

\* what `this.game` can be: absent, a game without onPortalEntry, a game with it
GameKinds == {"null", "noCallback", "callback"}

NoHist == [kind |-> "none"]

\* new VibePortalManager(game): nothing called or dispatched yet
ManagerConstructed(game) ==
    manager = [game |-> game, calls |-> << >>, events |-> << >>]

\* the detail of the game-portal-entry event, less its timestamp
GameEventDetailNoTarget(detail) ==
    [portalType |-> detail.portalType, targetUrl |-> << >>]

GameEventDetail(detail) ==
    [portalType |-> detail.portalType, targetUrl |-> detail.targetUrl]

\* the arguments of the game.onPortalEntry calls handlePortalEntry makes
OnPortalEntryCalls(game, detail) ==
    IF game = "callback" THEN << <<detail.portalType, detail.targetUrl>> >> ELSE << >>

\* handlePortalEntry(event) on the manager m: the callback called if the game
\* has it, and the game-portal-entry event dispatched
Handled(m, detail) ==
    [m EXCEPT !.calls = @ \o OnPortalEntryCalls(m.game, detail),
              !.events = Append(@, GameEventDetail(detail))]

\* enterPortal: the test that the last accepted entry is less than 2000 ms old
InCooldown(lastEntry) == lastEntry.set /\ lastEntry.age < EntryCooldownMs

\* (mutant) any result of get('ref') is followed
HasDestinationAlways(refUrl) == TRUE

\* the deferred step of a start portal: if (refUrl)
HasDestination(refUrl) == refUrl.found /\ refUrl.value # << >>

\* enterPortal(): an entry within 2000 ms of the last accepted one returns at
\* once; otherwise the event is dispatched, which runs the manager's listener
\* before dispatchEvent returns, and the navigation is deferred.
EnterPortal(p) ==
    IF InCooldown(p.lastEntry)
    THEN /\ portal' = p
         /\ UNCHANGED <<navTimers, portalEvents, manager>>
    ELSE LET nextPage == NextPage(p.targetUrl,
                                  OutboundParams(p.portalType, location.hostname, selfUsername))
             detail == [portalType |-> p.portalType, targetUrl |-> nextPage]
         IN /\ Len(portalEvents) < MaxEntries
            /\ portal' = [p EXCEPT !.lastEntry = [set |-> TRUE, age |-> 0]]
            /\ portalEvents' = Append(portalEvents, detail)
            /\ manager' = Handled(manager, detail)
            /\ navTimers' = Append(navTimers,
                                   [remaining |-> NavigationDelayMs, nextPage |-> nextPage])

\* VibePortalEntity.update(deltaTime, player): with a player, at the given
\* horizontal distance and height z, the proximity and the entry; without
\* one, isPlayerNearby = false
VibePortalUpdate(hasPlayer, distance, z) ==
    /\ navigatedTo = << >>
    /\ IF hasPlayer
       THEN LET p == [portal EXCEPT
                        !.isPlayerNearby = distance <= portal.interactionDistance]
            IN IF p.isActive /\ distance <= p.entryDetectionRange
               THEN /\ EnterPortal(p)
                    /\ lastStep' = [kind |-> IF InCooldown(p.lastEntry) THEN "rejected"
                                                                        ELSE "accepted",
                                    lastEntry |-> p.lastEntry, events |-> Len(portalEvents),
                                    distance |-> distance, z |-> z]
               ELSE /\ portal' = p
                    /\ lastStep' = NoStep
                    /\ UNCHANGED <<navTimers, portalEvents, manager>>
       ELSE /\ portal' = [portal EXCEPT !.isPlayerNearby = FALSE]
            /\ lastStep' = NoStep
            /\ UNCHANGED <<navTimers, portalEvents, manager>>
    /\ UNCHANGED <<location, selfUsername, navigatedTo, messages>>
    /\ UNCHANGED notEntryVars

\* (mutant) the deferred callback runs only while the portal is active and
\* the player still nearby
NavigationTimerFiresIfStillEntering(k) ==
    /\ navigatedTo = << >>
    /\ portal.isActive /\ portal.isPlayerNearby
    /\ k \in 1..Len(navTimers)
    /\ navTimers[k].remaining = 0
    /\ navTimers' = [j \in 1..(Len(navTimers) - 1) |->
                        IF j < k THEN navTimers[j] ELSE navTimers[j + 1]]
    /\ IF portal.portalType = "exit"
       THEN /\ navigatedTo' = navTimers[k].nextPage
            /\ lastStep' = [kind |-> "navigated"]
            /\ UNCHANGED messages
       ELSE IF portal.portalType = "start"
            THEN LET refUrl == ParamsGet(URLSearchParams(location.search), KeyRef)
                 IN IF HasDestination(refUrl)
                    THEN /\ navigatedTo' = RefDestination(refUrl.value, location.search)
                         /\ lastStep' = [kind |-> "navigated"]
                         /\ UNCHANGED messages
                    ELSE /\ messages' = messages + 1
                         /\ lastStep' = [kind |-> "message"]
                         /\ UNCHANGED navigatedTo
            ELSE /\ lastStep' = NoStep
                 /\ UNCHANGED <<navigatedTo, messages>>
    /\ UNCHANGED <<portal, location, selfUsername, portalEvents>>
    /\ UNCHANGED notPortalVars

\* The callback enterPortal deferred by 1000 ms.
NavigationTimerFires(k) ==
    /\ navigatedTo = << >>
    /\ k \in 1..Len(navTimers)
    /\ navTimers[k].remaining = 0
    /\ navTimers' = [j \in 1..(Len(navTimers) - 1) |->
                        IF j < k THEN navTimers[j] ELSE navTimers[j + 1]]
    /\ IF portal.portalType = "exit"
       THEN /\ navigatedTo' = navTimers[k].nextPage
            /\ lastStep' = [kind |-> "navigated"]
            /\ UNCHANGED messages
       ELSE IF portal.portalType = "start"
            THEN LET refUrl == ParamsGet(URLSearchParams(location.search), KeyRef)
                 IN IF HasDestination(refUrl)
                    THEN /\ navigatedTo' = RefDestination(refUrl.value, location.search)
                         /\ lastStep' = [kind |-> "navigated"]
                         /\ UNCHANGED messages
                    ELSE /\ messages' = messages + 1
                         /\ lastStep' = [kind |-> "message"]
                         /\ UNCHANGED navigatedTo
            ELSE /\ lastStep' = NoStep
                 /\ UNCHANGED <<navigatedTo, messages>>
    /\ UNCHANGED <<portal, location, selfUsername, portalEvents>>
    /\ UNCHANGED notPortalVars

\* TickMs of wall-clock time pass for the portal.
PortalAdvanceTime ==
    /\ navigatedTo = << >>
    /\ \/ portal.lastEntry.set /\ portal.lastEntry.age < EntryCooldownMs
       \/ \E k \in 1..Len(navTimers) : navTimers[k].remaining > 0
    /\ portal' = [portal EXCEPT !.lastEntry.age =
                     IF portal.lastEntry.set
                     THEN (IF @ + TickMs > EntryCooldownMs THEN EntryCooldownMs ELSE @ + TickMs)
                     ELSE @]
    /\ navTimers' = [k \in 1..Len(navTimers) |->
                        [navTimers[k] EXCEPT !.remaining = Max(0, @ - TickMs)]]
    /\ lastStep' = NoStep
    /\ UNCHANGED <<location, selfUsername, navigatedTo, portalEvents, messages>>
    /\ UNCHANGED notPortalVars

\* The page's query string is replaced without a reload (history.pushState)
\* after a start portal has shown its message.
SearchChanges(search) ==
    /\ navigatedTo = << >>
    /\ messages > 0
    /\ search # location.search
    /\ location' = [location EXCEPT !.search = search]
    /\ lastStep' = NoStep
    /\ UNCHANGED <<portal, selfUsername, navTimers, navigatedTo, portalEvents, messages>>
    /\ UNCHANGED notPortalVars

\* Other code toggles the portal's public isActive field.
SetActive(active) ==
    /\ navigatedTo = << >>
    /\ portal.isActive # active
    /\ portal' = [portal EXCEPT !.isActive = active]
    /\ lastStep' = NoStep
    /\ UNCHANGED <<location, selfUsername, navTimers, navigatedTo, portalEvents, messages>>
    /\ UNCHANGED notPortalVars

\* ------------------------------------------------------------------------
\* Scene integration loop (sceneIntegration.js)
\* ------------------------------------------------------------------------

\* bounds: Date.now() when the module is loaded, and how far the clock runs
ClockStart == 1000
MaxElapsed == 17

\* thresholds in hundredths of a grid cell, the render interval in ms
DefaultPortalThreshold == 50
ArcadePortalThreshold == 25
RenderInterval == 16

\* A registry in the shipped format whose startRoom has further portals
\* around its north URL portal: one registered before it, one north portal
\* that is no URL.
ArcadeScenes ==
    << [id |-> "startRoom", width |-> 400, height |-> 300,
        exits |-> << Exit("west", "circuitSanctum", 205, 5, <<82, 2>>, FALSE),
                     Exit("north", "http://arcade.example/", 200, 0, <<80, 0>>, FALSE),
                     Exit("north", "circuitSanctum", 210, 0, <<84, 0>>, FALSE) >>],
       [id |-> "circuitSanctum", width |-> 800, height |-> 600,
        exits |-> << Exit("south", "startRoom", 400, 600, <<80, 140>>, FALSE) >>] >>

LoopRegistries == {ShippedScenes, ArcadeScenes}

\* portal.targetScene.startsWith('http'), over the targets of the registries
TargetStartsWithHttp(to) ==
    to \in {"https://aialchemistart.github.io/Circuit-Sanctum-Arcade/", "http://arcade.example/"}

\* SceneManager.transitionTo(direction): the scene behind the first exit of
\* the current scene in that direction, when it is a scene of the registry.
SceneManagerTransitionTo(reg, current, direction) ==
    LET exits == SceneById(reg, current).exits
        ks == {k \in 1..Len(exits) : exits[k].direction = direction}
    IN IF ks = {} THEN current
       ELSE LET k == CHOOSE k \in ks : \A j \in ks : k <= j
            IN IF exits[k].to \in SceneIds(reg) THEN exits[k].to ELSE current

\* PortalSystem.getPortalsForScene(sceneId): one portal per exit of the scene
\* that has grid coordinates, in order, positions in hundredths.
GetPortalsForScene(reg, sceneId) ==
    LET exits == SceneById(reg, sceneId).exits
        ks == SelectSeq([k \in 1..Len(exits) |-> k], LAMBDA k : Len(exits[k].grid) = 2)
    IN [i \in 1..Len(ks) |->
           [id |-> <<sceneId, ks[i]>>, direction |-> exits[ks[i]].direction,
            targetScene |-> exits[ks[i]].to,
            gridX |-> exits[ks[i]].grid[1] * 10, gridY |-> exits[ks[i]].grid[2] * 10]]

\* Math.max(dx, dy) of the absolute coordinate differences
\* (mutant) the distance is the sum of the two axis distances
ChebyshevSum(q, px, py) == Abs(q.gridX - px) + Abs(q.gridY - py)

Chebyshev(q, px, py) == Max(Abs(q.gridX - px), Abs(q.gridY - py))

\* PortalSystem.getNearbyPortals(x, y, sceneId, threshold): the ids of the
\* portals of the scene within the threshold, in order.
GetNearbyPortals(reg, px, py, sceneId, threshold) ==
    LET near == SelectSeq(GetPortalsForScene(reg, sceneId),
                          LAMBDA q : Chebyshev(q, px, py) <= threshold)
    IN [i \in 1..Len(near) |-> near[i].id]

\* The four chords of handleSceneTransitions, in the order it tests them.
Chords ==
    << [name |-> "ShiftE", key |-> "e", direction |-> "north"],
       [name |-> "ShiftD", key |-> "d", direction |-> "south"],
       [name |-> "ShiftS", key |-> "s", direction |-> "west"],
       [name |-> "ShiftF", key |-> "f", direction |-> "east"] >>

Keys == {"e", "d", "s", "f", "Shift"}

NoKeysConsumed == [ShiftE |-> FALSE, ShiftD |-> FALSE, ShiftS |-> FALSE, ShiftF |-> FALSE]

\* input.isKeyPressed(key): whether the key is down
IsKeyPressed(down, key) == key \in down

\* handleSceneTransitions from its k-th test on; st holds the current scene,
\* consumedKeys and the transitionTo calls made so far.
RECURSIVE HandleChords(_, _, _, _)
HandleChords(st, reg, down, k) ==
    IF k > Len(Chords) THEN st
    ELSE LET chord == Chords[k]
         IN IF IsKeyPressed(down, chord.key) /\ IsKeyPressed(down, "Shift")
               /\ ~st.consumedKeys[chord.name]
            THEN HandleChords(
                     [current |-> SceneManagerTransitionTo(reg, st.current, chord.direction),
                      consumedKeys |-> [st.consumedKeys EXCEPT ![chord.name] = TRUE],
                      calls |-> Append(st.calls, chord.name)],
                     reg, down, k + 1)
            ELSE HandleChords(st, reg, down, k + 1)

\* handleSceneTransitions()
HandleSceneTransitions(reg, current, down, consumed) ==
    LET st == [current |-> current, consumedKeys |-> consumed, calls |-> << >>]
    IN IF current = Null THEN st ELSE HandleChords(st, reg, down, 1)

\* The player object passed to updateScene; a field is << >> when undefined
\* and <<value>> when defined; positions in hundredths, z in tenths.
Player(x, y, gridX, gridY, z) ==
    [defined |-> TRUE, x |-> x, y |-> y, gridX |-> gridX, gridY |-> gridY, z |-> z]

NoPlayer == [defined |-> FALSE, x |-> << >>, y |-> << >>, gridX |-> << >>, gridY |-> << >>,
             z |-> << >>]

\* Math.floor of a coordinate in hundredths
Floor(v) == (v \div 100) * 100

\* (mutant) detection only for a player that carries grid coordinates
ShouldDetectGridOnly(pl) == pl.defined /\ pl.gridX # << >> /\ pl.gridY # << >>

\* updateScene: player && player.x !== undefined && player.y !== undefined
ShouldDetect(pl) == pl.defined /\ pl.x # << >> /\ pl.y # << >>

PlayerGridX(pl) == IF pl.gridX # << >> THEN pl.gridX[1] ELSE Floor(pl.x[1])
PlayerGridY(pl) == IF pl.gridY # << >> THEN pl.gridY[1] ELSE Floor(pl.y[1])

\* updateScene: the portals given a threshold of their own (customProximityValues)
CustomProximityValues(reg, sceneId) ==
    IF sceneId = "startRoom"
    THEN LET portals == GetPortalsForScene(reg, sceneId)
         IN {portals[i].id : i \in {j \in 1..Len(portals) :
                                       /\ portals[j].direction = "north"
                                       /\ TargetStartsWithHttp(portals[j].targetScene)}}
    ELSE {}

\* updateScene: the first portal with a threshold of its own that the player
\* is within, as a list of at most one id
CustomMatch(reg, sceneId, px, py) ==
    LET portals == GetPortalsForScene(reg, sceneId)
        custom == CustomProximityValues(reg, sceneId)
        hits == {i \in 1..Len(portals) :
                    /\ portals[i].id \in custom
                    /\ Chebyshev(portals[i], px, py) <= ArcadePortalThreshold}
    IN IF hits = {} THEN << >>
       ELSE <<portals[CHOOSE i \in hits : \A j \in hits : i <= j].id>>

\* (mutant) the standard scan runs in every frame
StandardScanAlways(foundCustomPortal) == TRUE

\* updateScene: if (!foundCustomPortal)
StandardScan(foundCustomPortal) == ~foundCustomPortal

\* updateScene: the portal detection of one frame
DetectPortals(reg, sceneId, pl) ==
    LET px == PlayerGridX(pl)
        py == PlayerGridY(pl)
        match == CustomMatch(reg, sceneId, px, py)
        foundCustomPortal == match # << >>
        scan == StandardScan(foundCustomPortal)
    IN [overrides |-> CustomProximityValues(reg, sceneId),
        foundCustomPortal |-> foundCustomPortal,
        getNearbyCalled |-> scan,
        nearbyPortals |-> IF scan
                          THEN GetNearbyPortals(reg, px, py, sceneId, DefaultPortalThreshold)
                          ELSE match]

\* (mutant) the height of the player is not looked at
IsGroundedAlways(z) == TRUE

\* updateScene: player.z <= 0.1 (false when z is undefined)
IsGrounded(z) == z # << >> /\ z[1] <= GroundedMaxZ

\* (mutant) every frame renders
ShouldRenderAlways(forceRerender, now, last) == TRUE

\* updateScene: forceRerender || now - lastRenderTime > 16
ShouldRender(forceRerender, now, last) == forceRerender \/ now - last > RenderInterval

NoSceneFrame == [called |-> FALSE]

\* initSceneSystem(ctx, canvas)
InitSceneSystem ==
    /\ sceneRenderer' = TRUE
    /\ currentScene' = SceneManagerLoadScene(scenes, currentScene, "startRoom")
    /\ frame' = NoFrame
    /\ sceneFrame' = NoSceneFrame
    /\ UNCHANGED <<consumedKeys, keysDown, chordFired, lastRenderTime, clock>>
    /\ UNCHANGED notLoopVars

\* (mutant) every nearby portal is transitioned through
TransitionCallsAll(nearbyPortals, pl) ==
    IF nearbyPortals # << >> /\ IsGrounded(pl.z) THEN nearbyPortals ELSE << >>

\* updateScene: the transitionThroughPortal calls of one frame, as the list
\* of the portal ids passed
TransitionCalls(nearbyPortals, pl) ==
    IF nearbyPortals # << >> /\ IsGrounded(pl.z) THEN <<nearbyPortals[1]>> ELSE << >>

\* updateScene(deltaTime, player), isForceRerenderRequested() returning forceRerender
UpdateScene(pl, forceRerender) ==
    LET handled == HandleSceneTransitions(scenes, currentScene, keysDown, consumedKeys)
        scene == handled.current
        now == clock
        detects == scene # Null /\ ShouldDetect(pl)
        found == IF detects THEN DetectPortals(scenes, scene, pl)
                 ELSE [overrides |-> {}, foundCustomPortal |-> FALSE,
                       getNearbyCalled |-> FALSE, nearbyPortals |-> << >>]
        transitioned == TransitionCalls(found.nearbyPortals, pl)
        rendered == /\ scene # Null
                    /\ ShouldRender(forceRerender, now, lastRenderTime)
                    /\ sceneRenderer
        fired == {handled.calls[i] : i \in 1..Len(handled.calls)}
    IN /\ currentScene' = scene
       /\ consumedKeys' = NoKeysConsumed
       /\ chordFired' = chordFired \cup fired
       /\ lastRenderTime' = IF rendered THEN now ELSE lastRenderTime
       /\ sceneFrame' = [called |-> TRUE, calls |-> handled.calls,
                         repeats |-> fired \cap chordFired, scene |-> scene, player |-> pl,
                         forceRerender |-> forceRerender, now |-> now,
                         lastRenderBefore |-> lastRenderTime, detected |-> detects,
                         overrides |-> found.overrides,
                         foundCustomPortal |-> found.foundCustomPortal,
                         getNearbyCalled |-> found.getNearbyCalled,
                         nearbyPortals |-> found.nearbyPortals,
                         transitioned |-> transitioned, rendered |-> rendered]
       /\ frame' = NoFrame
       /\ UNCHANGED <<keysDown, clock, sceneRenderer>>
       /\ UNCHANGED notLoopVars

\* A key goes down.
KeyDown(key) ==
    /\ key \notin keysDown
    /\ keysDown' = keysDown \cup {key}
    /\ sceneFrame' = NoSceneFrame
    /\ UNCHANGED <<consumedKeys, chordFired, lastRenderTime, clock, sceneRenderer>>
    /\ UNCHANGED <<currentScene, frame>>
    /\ UNCHANGED notLoopVars

\* A key goes up: the chords it is part of are no longer held.
KeyUp(key) ==
    /\ key \in keysDown
    /\ keysDown' = keysDown \ {key}
    /\ chordFired' = {name \in chordFired :
                         \A k \in 1..Len(Chords) :
                            Chords[k].name = name => (key # Chords[k].key /\ key # "Shift")}
    /\ sceneFrame' = NoSceneFrame
    /\ UNCHANGED <<consumedKeys, lastRenderTime, clock, sceneRenderer>>
    /\ UNCHANGED <<currentScene, frame>>
    /\ UNCHANGED notLoopVars

\* Date.now() moves on by d ms.
ClockAdvances(d) ==
    /\ clock + d <= ClockStart + MaxElapsed
    /\ clock' = clock + d
    /\ sceneFrame' = NoSceneFrame
    /\ UNCHANGED <<consumedKeys, keysDown, chordFired, lastRenderTime, sceneRenderer>>
    /\ UNCHANGED <<currentScene, frame>>
    /\ UNCHANGED notLoopVars

\* Inputs of the loop: the players of a frame and the steps of the clock.
LoopPositions ==
    { <<800, 0>>, <<825, 25>>, <<840, 0>>, <<860, 0>>, <<0, 530>> }
LoopHeights == { << >>, <<1>>, <<2>> }
LoopPlayers ==
    {Player(<<p[1]>>, <<p[2]>>, <<p[1]>>, <<p[2]>>, z) : p \in LoopPositions, z \in LoopHeights}
    \cup {Player(<<840>>, <<30>>, << >>, << >>, <<0>>),
          Player(<< >>, <<0>>, <<800>>, <<0>>, <<0>>),
          NoPlayer}
\* the frames: every player without the re-render flag, two of them with it
LoopFrames ==
    {<<pl, FALSE>> : pl \in LoopPlayers}
    \cup {<<NoPlayer, TRUE>>, <<Player(<<800>>, <<0>>, <<800>>, <<0>>, <<1>>), TRUE>>}
ClockSteps == {8, 9}

\* The module as loaded, before initSceneSystem.
LoopLoaded ==
    /\ consumedKeys = NoKeysConsumed
    /\ keysDown = {}
    /\ chordFired = {}
    /\ lastRenderTime = 0
    /\ clock = ClockStart
    /\ sceneRenderer = FALSE
    /\ sceneFrame = NoSceneFrame

\* A frame of the game loop: DoorwayManager.update with the player somewhere.
Frame(deltaTime, p) ==
    Update(deltaTime, p[1], p[2]) /\ UNCHANGED player /\ UNCHANGED notDoorVars

\* The same, keeping the player position for the proximity claims.
FrameAt(deltaTime, p) ==
    Update(deltaTime, p[1], p[2]) /\ player' = p /\ UNCHANGED notDoorVars

\* Coordinates (tenths) of the player positions of the proximity runs.
\* deltaTime (ms) of the frames of the proximity runs
ProbeDeltaTime == CHOOSE dt \in DeltaTimes : \A d \in DeltaTimes : dt >= d

ProbeCoords == {0, 30, 50, 55, 80, 110, 130}

\* The DoorwayManager as constructed, over a registry.
DoorwaysConstructed(reg) ==
    /\ scenes = reg
    /\ currentScene = Null
    /\ doorwaysByScene = InitDoorways(reg)
    /\ activeDoorways = << >>
    /\ transitionCooldown = 0
    /\ timers = {}
    /\ frame = NoFrame
    /\ forceCalls = 0
    /\ player = << >>

\* A portal as constructed from its options, on a page.
PortalConstructed(typeOption, targetUrlOption, hostname, search, username) ==
    /\ portal = NewVibePortal(typeOption, targetUrlOption)
    /\ location = [hostname |-> hostname, search |-> search]
    /\ selfUsername = username
    /\ navTimers = << >>
    /\ navigatedTo = << >>
    /\ portalEvents = << >>
    /\ messages = 0
    /\ lastStep = NoStep

\* the portal-entry listener
HandlePortalEntry(detail) ==
    /\ Len(manager.events) < MaxHandled
    /\ manager' = Handled(manager, detail)
    /\ hist' = [kind |-> "handled", detail |-> detail,
                calls |-> Len(manager.calls), events |-> Len(manager.events)]
    /\ UNCHANGED <<jukebox, tv, interactor, debugCtl, enterDown>>
    /\ UNCHANGED notSideVars

\* the details of the portal-entry events a VibePortalEntity dispatches, over
\* its constructor options, for a signed-in player
EventDetails ==
    {[portalType |-> NewVibePortal(t, u).portalType,
      targetUrl |-> NextPage(NewVibePortal(t, u).targetUrl,
                             OutboundParams(NewVibePortal(t, u).portalType, << >>,
                                            <<"b", "o", "b">>))] :
        t \in PortalTypeOptions, u \in TargetUrlOptions}

(***************************************************************************)
(* debugControls (src/debugControls.js, first part): the L key and the     *)
(* ?test=scene auto-run of the scene tests.                                *)
(***************************************************************************)

\* the module as loaded: both flags false, initDebugControls not called yet,
\* no run of runSceneTests started
DebugControlsLoaded ==
    debugCtl = [testsRun |-> FALSE, testsRunning |-> FALSE, listeners |-> 0,
                autoTimer |-> << >>, running |-> 0, started |-> 0]

\* the delay (ms) of the auto-run timer
AutoRunDelayMs == 500

\* bounds: the time step (ms) of these components' timers, and the runs of
\* runSceneTests started per run of the model
SideTick == 250
MaxRuns == 3
MaxInits == 2

TestSceneParam == <<"t", "e", "s", "t", "=", "s", "c", "e", "n", "e">>

\* the query strings of the pages the debug controls are loaded on
DebugSearches ==
    { << >>,
      <<"?", "t", "e", "s", "t", "=", "s", "c", "e", "n", "e">>,
      <<"?", "x", "=", "1", "&", "t", "e", "s", "t", "=", "s", "c", "e", "n", "e">>,
      <<"?", "t", "e", "s", "t", "=", "1">> }

\* String.prototype.includes
Includes(text, needle) ==
    \E i \in 1..(Len(text) - Len(needle) + 1) :
        SubSeq(text, i, i + Len(needle) - 1) = needle

\* a timer's remaining delay after SideTick ms
Elapse(remaining) == IF remaining > SideTick THEN remaining - SideTick ELSE 0

\* testsRunning = true; runSceneTests().then(...).catch(...): the flag is set
\* and one more run is in progress until its promise settles
StartRun(d) ==
    [d EXCEPT !.testsRunning = TRUE, !.running = @ + 1, !.started = @ + 1]

\* initDebugControls(): one more keydown listener is registered on window, and
\* on a page whose query string includes test=scene, with neither flag set,
\* one more auto-run timer is started
InitDebugControls ==
    /\ debugCtl.listeners < MaxInits
    /\ debugCtl' = [debugCtl EXCEPT
                        !.listeners = @ + 1,
                        !.autoTimer = IF /\ Includes(location.search, TestSceneParam)
                                         /\ ~debugCtl.testsRun
                                         /\ ~debugCtl.testsRunning
                                      THEN Append(@, AutoRunDelayMs)
                                      ELSE @]
    /\ hist' = [kind |-> "init"]
    /\ UNCHANGED <<manager, jukebox, tv, interactor, enterDown>>
    /\ UNCHANGED notSideVars

\* a keydown event for the key l or L: the registered listeners run in turn;
\* the first one that finds testsRunning false sets it and starts a run, so
\* the listeners after it find it true
KeyDownL ==
    /\ debugCtl.listeners > 0
    /\ IF ~debugCtl.testsRunning
       THEN /\ debugCtl.started < MaxRuns
            /\ debugCtl' = StartRun(debugCtl)
            /\ hist' = [kind |-> "started", by |-> "key", running |-> debugCtl.running]
       ELSE /\ debugCtl' = debugCtl
            /\ hist' = [kind |-> "ignored"]
    /\ UNCHANGED <<manager, jukebox, tv, interactor, enterDown>>
    /\ UNCHANGED notSideVars

\* the callback of the auto-run timer started first, once its delay has
\* elapsed: it starts a run without testing the flags again
AutoRunTimerFires ==
    /\ debugCtl.autoTimer # << >>
    /\ debugCtl.autoTimer[1] = 0
    /\ debugCtl.started < MaxRuns
    /\ debugCtl' = [StartRun(debugCtl) EXCEPT !.autoTimer = Tail(@)]
    /\ hist' = [kind |-> "started", by |-> "timer", running |-> debugCtl.running]
    /\ UNCHANGED <<manager, jukebox, tv, interactor, enterDown>>
    /\ UNCHANGED notSideVars

\* the promise of a run in progress settles: fulfilled (then) or rejected (catch)
RunSettles(fulfilled) ==
    /\ debugCtl.running > 0
    /\ debugCtl' = [debugCtl EXCEPT
                        !.testsRun = @ \/ fulfilled,
                        !.testsRunning = FALSE,
                        !.running = @ - 1]
    /\ hist' = [kind |-> "settled", fulfilled |-> fulfilled]
    /\ UNCHANGED <<manager, jukebox, tv, interactor, enterDown>>
    /\ UNCHANGED notSideVars

\* SideTick ms pass while auto-run timers are pending and none is due
DebugTimePasses ==
    /\ debugCtl.autoTimer # << >>
    /\ \A k \in 1..Len(debugCtl.autoTimer) : debugCtl.autoTimer[k] > 0
    /\ debugCtl' = [debugCtl EXCEPT !.autoTimer = [k \in 1..Len(@) |-> Elapse(@[k])]]
    /\ hist' = [kind |-> "time"]
    /\ UNCHANGED <<manager, jukebox, tv, interactor, enterDown>>
    /\ UNCHANGED notSideVars

(***************************************************************************)
(* JukeboxEntity (src/debugControls.js, second part).                      *)
(***************************************************************************)

\* new JukeboxEntity(...): inactive, the keydown listener registered, the
\* player element not created yet.  created: this.soundCloudPlayer is set;
\* inDocument: the element is attached to document.body; escapeListening: the
\* player's keydownHandler is registered; timers: the pending setTimeout
\* callbacks in the order they were set, each with its kind ("reset" clears
\* wasEnterPressed, "opacity" fades the player in, "remove" detaches it) and
\* the delay it has left.
JukeboxConstructed ==
    jukebox = [isActive |-> FALSE, wasEnterPressed |-> FALSE, isPlayerNearby |-> FALSE,
               listening |-> TRUE, created |-> FALSE, inDocument |-> FALSE,
               opacity |-> "0", escapeListening |-> FALSE,
               timers |-> << >>]

\* this.interactionDistance, in tenths of a grid unit
JukeboxInteractionDistance == 40

\* the delay (ms) after a toggle before wasEnterPressed is cleared
JukeboxResetDelayMs == 500

\* the delays (ms) before a shown player becomes opaque and before a hidden
\* one is removed from the document
PlayerFadeInDelayMs == 50
PlayerRemoveDelayMs == 300

\* bounds: the pending timers of an entity, the calls (toggleJukebox or
\* cleanup, each at its own millisecond) whose timers are pending together,
\* and the toggles counted per press
MaxPendingResets == 3
MaxJukeboxTimers == 4
MaxJukeboxCalls == 2
MaxToggles == 3

\* the amounts of time (ms) the runs let pass at once between two events
JukeboxSteps == {5, 50}

\* a jukebox timer set now
JukeboxTimer(kind, delay) == [kind |-> kind, remaining |-> delay]

\* the player's distance (tenths) from the jukebox in a frame
JukeboxDistances == {20, 50}

\* history of the Enter key for the jukebox: whether it went down beside the
\* inactive jukebox, whether handleKeyDown was registered then, and the
\* changes of isActive made by the keydown listener and by the polling in
\* update since it went down; Escape, the close button and cleanup end the
\* history of the press
NoJukeboxPress == [besideInactive |-> FALSE, listened |-> FALSE, toggles |-> 0]

\* one more toggle counted, up to the bound
CountToggle(press) ==
    [press EXCEPT !.toggles = IF @ < MaxToggles THEN @ + 1 ELSE @]

\* showSoundCloudPlayer(): the element is created (transparent) if need be and
\* appended to the body, the Escape handler registered, the fade-in deferred
ShowSoundCloudPlayer(j) ==
    [j EXCEPT !.opacity = IF j.created THEN @ ELSE "0",
              !.created = TRUE,
              !.inDocument = TRUE,
              !.escapeListening = TRUE,
              !.timers = Append(@, JukeboxTimer("opacity", PlayerFadeInDelayMs))]

\* hideSoundCloudPlayer(): with a player element, it is made transparent, the
\* Escape handler removed and the removal from the document deferred
HideSoundCloudPlayer(j) ==
    IF j.created
    THEN [j EXCEPT !.opacity = "0",
                   !.escapeListening = FALSE,
                   !.timers = Append(@, JukeboxTimer("remove", PlayerRemoveDelayMs))]
    ELSE j

\* toggleJukebox(): the player is shown and the keydown listener removed, or
\* the player hidden and the listener added; either way wasEnterPressed is
\* set and a timer started that clears it
ToggleJukebox(j) ==
    LET t == [j EXCEPT !.isActive = ~j.isActive]
        u == IF t.isActive THEN ShowSoundCloudPlayer(t) ELSE HideSoundCloudPlayer(t)
    IN [u EXCEPT !.listening = ~t.isActive,
                 !.wasEnterPressed = TRUE,
                 !.timers = Append(@, JukeboxTimer("reset", JukeboxResetDelayMs))]

\* the delay a timer of this kind is set with
JukeboxDelay(kind) ==
    IF kind = "reset" THEN JukeboxResetDelayMs
    ELSE IF kind = "opacity" THEN PlayerFadeInDelayMs ELSE PlayerRemoveDelayMs

\* how long ago (ms) the pending timers were set
JukeboxSetAges(j) ==
    {JukeboxDelay(j.timers[k].kind) - j.timers[k].remaining : k \in 1..Len(j.timers)}

\* room, within the bounds, for the n timers a toggle or a hide sets now
JukeboxRoom(j, n) ==
    /\ Len(j.timers) + n <= MaxJukeboxTimers
    /\ Cardinality(JukeboxSetAges(j) \cup {0}) <= MaxJukeboxCalls

\* a keydown event for Enter reaches the document: handleKeyDown, when it is
\* registered
JukeboxKeyDownEvent(kind) ==
    LET toggles == /\ jukebox.listening
                   /\ jukebox.isPlayerNearby
                   /\ ~jukebox.isActive
    IN /\ toggles => JukeboxRoom(jukebox, 2)
       /\ jukebox' = IF toggles THEN ToggleJukebox(jukebox) ELSE jukebox
       /\ hist' = LET press == IF kind = "keydown"
                               THEN [besideInactive |-> jukebox.isPlayerNearby
                                                        /\ ~jukebox.isActive,
                                     listened |-> jukebox.listening,
                                     toggles |-> 0]
                               ELSE hist
                  IN IF toggles THEN CountToggle(press) ELSE press

\* the Enter key goes down
JukeboxEnterDown ==
    /\ ~enterDown
    /\ enterDown' = TRUE
    /\ JukeboxKeyDownEvent("keydown")
    /\ UNCHANGED <<manager, tv, interactor, debugCtl>>
    /\ UNCHANGED notSideVars

\* the keyboard repeats the keydown event while the key is held
JukeboxEnterRepeat ==
    /\ enterDown
    /\ JukeboxKeyDownEvent("repeat")
    /\ UNCHANGED <<manager, tv, interactor, debugCtl, enterDown>>
    /\ UNCHANGED notSideVars

\* the Enter key goes up
JukeboxEnterUp ==
    /\ enterDown
    /\ enterDown' = FALSE
    /\ hist' = NoJukeboxPress
    /\ UNCHANGED <<manager, jukebox, tv, interactor, debugCtl>>
    /\ UNCHANGED notSideVars

\* a keydown event for Escape: the player's keydownHandler, while registered
JukeboxEscapeDown ==
    /\ jukebox.escapeListening => JukeboxRoom(jukebox, 2)
    /\ jukebox' = IF jukebox.escapeListening THEN ToggleJukebox(jukebox) ELSE jukebox
    /\ hist' = NoJukeboxPress
    /\ UNCHANGED <<manager, tv, interactor, debugCtl, enterDown>>
    /\ UNCHANGED notSideVars

\* a click on the close button of the player, while it is in the document
JukeboxCloseClick ==
    /\ jukebox.created
    /\ jukebox.inDocument
    /\ JukeboxRoom(jukebox, 2)
    /\ jukebox' = ToggleJukebox(jukebox)
    /\ hist' = NoJukeboxPress
    /\ UNCHANGED <<manager, tv, interactor, debugCtl, enterDown>>
    /\ UNCHANGED notSideVars

\* update(deltaTime, player): with a player, the proximity, then the polling
\* of window.input.keys['Enter']; without one, neither
JukeboxUpdate(hasPlayer, distance) ==
    LET near == distance <= JukeboxInteractionDistance
        j == [jukebox EXCEPT !.isPlayerNearby = near]
        isEnterPressed == enterDown
        toggles == /\ hasPlayer
                   /\ isEnterPressed
                   /\ ~j.wasEnterPressed
                   /\ \/ j.isPlayerNearby /\ ~j.isActive
                      \/ j.isActive
    IN /\ toggles => JukeboxRoom(jukebox, 2)
       /\ jukebox' = IF ~hasPlayer THEN jukebox
                     ELSE [(IF toggles THEN ToggleJukebox(j) ELSE j)
                               EXCEPT !.wasEnterPressed = isEnterPressed]
       /\ hist' = IF toggles THEN CountToggle(hist) ELSE hist
       /\ UNCHANGED <<manager, tv, interactor, debugCtl, enterDown>>
       /\ UNCHANGED notSideVars

\* cleanup(): handleKeyDown removed, and the player hidden if the jukebox is
\* active (isActive stays as it is)
JukeboxCleanup ==
    /\ jukebox.isActive /\ jukebox.created => JukeboxRoom(jukebox, 1)
    /\ jukebox' = [(IF jukebox.isActive THEN HideSoundCloudPlayer(jukebox) ELSE jukebox)
                       EXCEPT !.listening = FALSE]
    /\ hist' = NoJukeboxPress
    /\ UNCHANGED <<manager, tv, interactor, debugCtl, enterDown>>
    /\ UNCHANGED notSideVars

\* the timers whose delay has elapsed
JukeboxDue(j) == {k \in 1..Len(j.timers) : j.timers[k].remaining = 0}

\* the earliest set of them, the one the event loop runs next
JukeboxNextDue(j) == CHOOSE k \in JukeboxDue(j) : \A i \in JukeboxDue(j) : k <= i

\* The event loop runs the next due callback: the reset clears
\* wasEnterPressed, the fade-in makes the player opaque, the removal detaches
\* it from the document if it is attached.
JukeboxTimerFires ==
    /\ JukeboxDue(jukebox) # {}
    /\ LET k == JukeboxNextDue(jukebox)
           kind == jukebox.timers[k].kind
       IN jukebox' = [jukebox EXCEPT
                            !.wasEnterPressed = IF kind = "reset" THEN FALSE ELSE @,
                            !.opacity = IF kind = "opacity" THEN "1" ELSE @,
                            !.inDocument = IF kind = "remove" THEN FALSE ELSE @,
                            !.timers = [i \in 1..(Len(@) - 1) |->
                                           IF i < k THEN @[i] ELSE @[i + 1]]]
    /\ UNCHANGED <<manager, tv, interactor, debugCtl, enterDown, hist>>
    /\ UNCHANGED notSideVars

\* elapsed ms pass, no callback being due before they are over: every
\* pending timer is that much nearer to its time, and a timer runs at the
\* millisecond it is due, before any time passes further
JukeboxTimePasses(elapsed) ==
    /\ elapsed >= 1
    /\ jukebox.timers # << >>
    /\ \A k \in 1..Len(jukebox.timers) : elapsed <= jukebox.timers[k].remaining
    /\ jukebox' = [jukebox EXCEPT
                      !.timers = [k \in 1..Len(@) |->
                                     [@[k] EXCEPT !.remaining = @ - elapsed]]]
    /\ UNCHANGED <<manager, tv, interactor, debugCtl, enterDown, hist>>
    /\ UNCHANGED notSideVars

(***************************************************************************)
(* TVEntity (src/couchEntity.js, second part).                             *)
(***************************************************************************)

\* this.interactionDistance, in tenths of a grid unit
TVInteractionDistance == 40

\* this.toggleCooldown (ms), and the delay (ms) after a toggle before
\* wasEnterPressed is cleared
TVToggleCooldownMs == 500
TVResetDelayMs == 500

\* the player's distance (tenths) from the TV in a frame
TVDistances == {20, 50}

\* A TVEntity as constructed: off, the keydown listener registered, no modal.
\* lastToggle is lastToggleTime as the time since the latest accepted toggle:
\* not set while lastToggleTime is still 0, its age counted up to the cooldown.
NewTV ==
    [isActive |-> FALSE, wasEnterPressed |-> FALSE, isPlayerNearby |-> FALSE,
     lastToggle |-> [set |-> FALSE, age |-> 0], youtubePlayer |-> FALSE,
     listening |-> TRUE, modalListening |-> FALSE, resetTimers |-> << >>]

TVConstructed == tv = NewTV

\* history of the TV: the latest step, and the TV as the latest toggleTV call
\* found it
NoTVCall == [kind |-> "none", by |-> "none", before |-> NewTV]

\* now - this.lastToggleTime < this.toggleCooldown
TVInCooldownNever(lastToggle) == FALSE

TVInCooldown(lastToggle) == lastToggle.set /\ lastToggle.age < TVToggleCooldownMs

\* toggleTV(): nothing during the cooldown; otherwise the time is recorded,
\* the modal created with its two key listeners and handleKeyDown removed, or
\* the modal (if any) removed with its listeners and handleKeyDown added;
\* either way wasEnterPressed is set and a timer started that clears it
ToggleTV(t) ==
    IF TVInCooldown(t.lastToggle)
    THEN t
    ELSE [t EXCEPT !.lastToggle = [set |-> TRUE, age |-> 0],
                   !.isActive = ~t.isActive,
                   !.youtubePlayer = ~t.isActive,
                   !.modalListening = IF ~t.isActive THEN TRUE
                                      ELSE IF t.youtubePlayer THEN FALSE ELSE @,
                   !.listening = t.isActive,
                   !.wasEnterPressed = TRUE,
                   !.resetTimers = Append(@, TVResetDelayMs)]

\* what a toggleTV call on the TV t did
TVCallTrace(t, by) ==
    [kind |-> IF TVInCooldown(t.lastToggle) THEN "ignored" ELSE "accepted",
     by |-> by, before |-> t]

\* room for the timer an accepted toggle starts
TVRoom(t) == TVInCooldown(t.lastToggle) \/ Len(t.resetTimers) < MaxPendingResets

\* a keydown event for Enter reaches the document: handleKeyDown beside the
\* TV that is off, handleEnterKeyInModal while the modal is up
TVEnterKeyDownEvent ==
    LET direct == tv.listening /\ tv.isPlayerNearby /\ ~tv.isActive
        inModal == tv.modalListening /\ tv.isActive
    IN IF direct \/ inModal
       THEN /\ TVRoom(tv)
            /\ tv' = ToggleTV(tv)
            /\ hist' = TVCallTrace(tv, IF direct THEN "handleKeyDown"
                                                ELSE "handleEnterKeyInModal")
       ELSE /\ tv' = tv
            /\ hist' = [hist EXCEPT !.kind = "key"]

\* the Enter key goes down
TVEnterDown ==
    /\ ~enterDown
    /\ enterDown' = TRUE
    /\ TVEnterKeyDownEvent
    /\ UNCHANGED <<manager, jukebox, interactor, debugCtl>>
    /\ UNCHANGED notSideVars

\* the keyboard repeats the keydown event while the key is held
TVEnterRepeat ==
    /\ enterDown
    /\ TVEnterKeyDownEvent
    /\ UNCHANGED <<manager, jukebox, interactor, debugCtl, enterDown>>
    /\ UNCHANGED notSideVars

\* the Enter key goes up
TVEnterUp ==
    /\ enterDown
    /\ enterDown' = FALSE
    /\ hist' = [hist EXCEPT !.kind = "key"]
    /\ UNCHANGED <<manager, jukebox, tv, interactor, debugCtl>>
    /\ UNCHANGED notSideVars

\* a keydown event for Escape: handleEscapeKey while the modal is up
TVEscapeDown ==
    /\ IF tv.modalListening /\ tv.isActive
       THEN /\ TVRoom(tv)
            /\ tv' = ToggleTV(tv)
            /\ hist' = TVCallTrace(tv, "handleEscapeKey")
       ELSE /\ tv' = tv
            /\ hist' = [hist EXCEPT !.kind = "key"]
    /\ UNCHANGED <<manager, jukebox, interactor, debugCtl, enterDown>>
    /\ UNCHANGED notSideVars

\* a click on the modal's close button
TVCloseClick ==
    /\ tv.youtubePlayer
    /\ TVRoom(tv)
    /\ tv' = ToggleTV(tv)
    /\ hist' = TVCallTrace(tv, "closeButton")
    /\ UNCHANGED <<manager, jukebox, interactor, debugCtl, enterDown>>
    /\ UNCHANGED notSideVars

\* update(deltaTime, player): with a player, the proximity, then the polling
\* of window.input.keys['Enter']; without one, neither
TVUpdate(hasPlayer, distance) ==
    LET near == distance <= TVInteractionDistance
        t == [tv EXCEPT !.isPlayerNearby = near]
        isEnterPressed == enterDown
        calls == /\ hasPlayer
                 /\ isEnterPressed
                 /\ ~t.wasEnterPressed
                 /\ \/ t.isPlayerNearby /\ ~t.isActive
                    \/ t.isActive
    IN /\ calls => TVRoom(t)
       /\ tv' = IF ~hasPlayer THEN tv
                ELSE [(IF calls THEN ToggleTV(t) ELSE t)
                          EXCEPT !.wasEnterPressed = isEnterPressed]
       /\ hist' = IF calls THEN TVCallTrace(t, "update")
                           ELSE [hist EXCEPT !.kind = "update"]
       /\ UNCHANGED <<manager, jukebox, interactor, debugCtl, enterDown>>
       /\ UNCHANGED notSideVars

\* the callback of the oldest reset timer, once its delay has elapsed
TVResetTimerFires ==
    /\ tv.resetTimers # << >>
    /\ tv.resetTimers[1] = 0
    /\ tv' = [tv EXCEPT !.wasEnterPressed = FALSE, !.resetTimers = Tail(@)]
    /\ hist' = [hist EXCEPT !.kind = "reset"]
    /\ UNCHANGED <<manager, jukebox, interactor, debugCtl, enterDown>>
    /\ UNCHANGED notSideVars

\* SideTick ms pass: the timers' delays run down and Date.now() moves away
\* from lastToggleTime
TVTimePasses ==
    /\ \/ \E k \in 1..Len(tv.resetTimers) : tv.resetTimers[k] > 0
       \/ TVInCooldown(tv.lastToggle)
    /\ tv' = [tv EXCEPT
                 !.resetTimers = [k \in 1..Len(@) |-> Elapse(@[k])],
                 !.lastToggle = IF @.set
                                THEN [@ EXCEPT !.age = IF @ + SideTick < TVToggleCooldownMs
                                                       THEN @ + SideTick
                                                       ELSE TVToggleCooldownMs]
                                ELSE @]
    /\ hist' = [hist EXCEPT !.kind = "time"]
    /\ UNCHANGED <<manager, jukebox, interactor, debugCtl, enterDown>>
    /\ UNCHANGED notSideVars

\* cleanup(): handleKeyDown removed, and the modal with its listeners if the
\* TV is on
TVCleanup ==
    /\ tv' = [tv EXCEPT !.listening = FALSE,
                        !.youtubePlayer = IF tv.isActive THEN FALSE ELSE @,
                        !.modalListening = IF tv.isActive /\ tv.youtubePlayer
                                           THEN FALSE ELSE @]
    /\ hist' = [hist EXCEPT !.kind = "cleanup"]
    /\ UNCHANGED <<manager, jukebox, interactor, debugCtl, enterDown>>
    /\ UNCHANGED notSideVars

(***************************************************************************)
(* PortalEntity (src/unnamed/part_000) and TrophyEntity                    *)
(* (src/trophyEntity.js, first part): the Enter-key interaction.           *)
(***************************************************************************)

\* options.interactionDistance || 4.0 and || 3.0, in tenths of a grid unit
PortalInteractionDistance == 40
TrophyInteractionDistance == 30

\* the delay (ms) between a detected press and interact()
InteractDelayMs == 50

\* bound: interact() calls scheduled per run
MaxInteractions == 3

\* the player's distance (tenths) from the entity in a frame
InteractorDistances == {20, 35, 50}

\* the entity as constructed: interaction enabled, nobody near
InteractorConstructed(interactionDistance) ==
    interactor = [interactionDistance |-> interactionDistance,
                  isPlayerNearby |-> FALSE, interactionEnabled |-> TRUE,
                  wasEnterPressed |-> FALSE, interactTimers |-> << >>, interactions |-> 0]

\* history of the Enter key for the entity: whether the key, since it went
\* down, has been held through a frame with the player out of range, and the
\* interact() calls scheduled since it went down
NoPress == [kind |-> "none", heldOutside |-> FALSE, scheduled |-> 0, isNew |-> FALSE]

\* isNewEnterPress of checkForInteraction
IsNewEnterPress(isEnterPressed, wasEnterPressed) == isEnterPressed /\ ~wasEnterPressed

\* update(deltaTime, player): updatePlayerProximity, then checkForInteraction
\* reading the Enter key from the input system
EntityUpdate(hasPlayer, distance) ==
    LET near == hasPlayer /\ distance <= interactor.interactionDistance
        checked == near /\ interactor.interactionEnabled
        isNew == checked /\ IsNewEnterPress(enterDown, interactor.wasEnterPressed)
    IN /\ isNew => Len(interactor.interactTimers) + interactor.interactions < MaxInteractions
       /\ interactor' = [interactor EXCEPT
                            !.isPlayerNearby = near,
                            !.wasEnterPressed = IF checked THEN enterDown ELSE @,
                            !.interactTimers = IF isNew THEN Append(@, InteractDelayMs)
                                                        ELSE @]
       /\ hist' = [kind |-> "update",
                   heldOutside |-> hist.heldOutside \/ (enterDown /\ ~near),
                   scheduled |-> hist.scheduled + (IF isNew THEN 1 ELSE 0),
                   isNew |-> isNew]
       /\ UNCHANGED <<manager, jukebox, tv, debugCtl, enterDown>>
       /\ UNCHANGED notSideVars

\* interact(), 50 ms after the press: window.open(targetUrl, '_blank')
InteractTimerFires ==
    /\ interactor.interactTimers # << >>
    /\ interactor.interactTimers[1] = 0
    /\ interactor' = [interactor EXCEPT
                         !.interactTimers = Tail(@),
                         !.interactions = IF interactor.interactionEnabled THEN @ + 1 ELSE @]
    /\ hist' = [hist EXCEPT !.kind = "interact", !.isNew = FALSE]
    /\ UNCHANGED <<manager, jukebox, tv, debugCtl, enterDown>>
    /\ UNCHANGED notSideVars

\* SideTick ms pass while an interact() is scheduled
InteractTimePasses ==
    /\ \E k \in 1..Len(interactor.interactTimers) : interactor.interactTimers[k] > 0
    /\ interactor' = [interactor EXCEPT
                         !.interactTimers = [k \in 1..Len(@) |-> Elapse(@[k])]]
    /\ hist' = [hist EXCEPT !.kind = "time", !.isNew = FALSE]
    /\ UNCHANGED <<manager, jukebox, tv, debugCtl, enterDown>>
    /\ UNCHANGED notSideVars

\* the Enter key goes down, and up, as the entity sees it in the input system
EntityEnterDown ==
    /\ ~enterDown
    /\ enterDown' = TRUE
    /\ hist' = [kind |-> "keydown", heldOutside |-> FALSE, scheduled |-> 0, isNew |-> FALSE]
    /\ UNCHANGED <<manager, jukebox, tv, interactor, debugCtl>>
    /\ UNCHANGED notSideVars

EntityEnterUp ==
    /\ enterDown
    /\ enterDown' = FALSE
    /\ hist' = [kind |-> "keyup", heldOutside |-> FALSE, scheduled |-> 0, isNew |-> FALSE]
    /\ UNCHANGED <<manager, jukebox, tv, interactor, debugCtl>>
    /\ UNCHANGED notSideVars

\* These components as constructed, no key down.
SideLoaded ==
    /\ ManagerConstructed("callback")
    /\ JukeboxConstructed
    /\ TVConstructed
    /\ InteractorConstructed(PortalInteractionDistance)
    /\ DebugControlsLoaded
    /\ enterDown = FALSE
    /\ hist = NoHist

Init ==
    /\ \E reg \in Registries : DoorwaysConstructed(reg)
    /\ PortalConstructed(Undefined, << >>, << >>, << >>, << >>)
    /\ LoopLoaded
    /\ SideLoaded

Next ==
    \/ \E dt \in DeltaTimes, p \in PlayerPositions : Frame(dt, p)
    \/ \E id \in SceneIds(scenes), side \in {"north", "west"}, pos \in DoorPositions,
          open \in BOOLEAN : ForceDoorState(id, side, pos, open)
    \/ \E t \in timers : CloseTimerFires(t)
    \/ AdvanceTime
    \/ \E id \in SceneIds(scenes) : SceneLoaded(id)

Spec == Init /\ [][Next]_vars

\* the doorways of the shipped registry
ShippedRefs == AllRefs(InitDoorways(ShippedScenes))

\* The doorways of the shipped registry, timers being run by the browser's
\* event loop: time passes and every due callback is called.
InitDoorFair ==
    /\ DoorwaysConstructed(ShippedScenes)
    /\ PortalConstructed(Undefined, << >>, << >>, << >>, << >>)
    /\ LoopLoaded
    /\ SideLoaded

\* forceDoorState is called for doors of the scene on screen
NextDoorFair ==
    \/ \E p \in PlayerPositions : Frame(ProbeDeltaTime, p)
    \/ \E side \in {"north", "west"}, pos \in DoorPositions, open \in BOOLEAN :
          currentScene # Null /\ ForceDoorState(currentScene, side, pos, open)
    \/ \E t \in timers : CloseTimerFires(t)
    \/ AdvanceTime
    \/ \E id \in SceneIds(scenes) : SceneLoaded(id)

SpecDoorFair ==
    /\ InitDoorFair
    /\ [][NextDoorFair]_vars
    /\ WF_vars(AdvanceTime)
    /\ \A r \in ShippedRefs : WF_vars(\E t \in timers : t.door = r /\ CloseTimerFires(t))

\* Frames only, over a grid of player positions: the proximity test.
\* Player positions (tenths) of the runs with processDoorway: within reach of
\* a floor portal at grid (0,0), at the north door of the first scene, and
\* away from both.
ProcessPositions == {<<10, 10>>, <<80, 10>>, <<80, 40>>}

\* The doorways with processDoorway called after the construction (no code
\* of src/ calls it; it is a public method of the manager).
NextProcess ==
    \/ \E p \in ProcessPositions : Frame(ProbeDeltaTime, p)
    \/ \E name \in ProcessedSceneNames(scenes), doorway \in ProcessedDoorways,
          to \in ProcessedTargets(scenes) : ProcessDoorway(name, doorway, to)
    \/ \E t \in timers : CloseTimerFires(t)
    \/ AdvanceTime
    \/ \E id \in SceneIds(scenes) : SceneLoaded(id)

SpecProcess == Init /\ [][NextProcess]_vars

NextProximity ==
    \/ \E x \in ProbeCoords, y \in ProbeCoords : FrameAt(ProbeDeltaTime, <<x, y>>)
    \/ \E id \in SceneIds(scenes) : SceneLoaded(id)

SpecProximity == Init /\ [][NextProximity]_vars

\* A VibePortalEntity on a page, the player walking about it.
InitPortal ==
    /\ DoorwaysConstructed(ShippedScenes)
    /\ LoopLoaded
    /\ SideLoaded
    /\ \E typeOption \in PortalTypeOptions, targetUrlOption \in TargetUrlOptions,
          hostname \in Hostnames, search \in Searches, username \in Usernames :
          PortalConstructed(typeOption, targetUrlOption, hostname, search, username)

NextPortal ==
    \/ \E hasPlayer \in BOOLEAN, distance \in PlayerDistances, z \in PlayerHeights :
          VibePortalUpdate(hasPlayer, distance, z)
    \/ \E k \in 1..Len(navTimers) : NavigationTimerFires(k)
    \/ PortalAdvanceTime

SpecPortal == InitPortal /\ [][NextPortal]_vars

\* The same, the page's query string changing after a failed start entry.
NextPortalRetry ==
    \/ \E hasPlayer \in BOOLEAN, distance \in PlayerDistances, z \in PlayerHeights :
          VibePortalUpdate(hasPlayer, distance, z)
    \/ \E k \in 1..Len(navTimers) : NavigationTimerFires(k)
    \/ PortalAdvanceTime
    \/ \E search \in Searches : SearchChanges(search)

SpecPortalRetry == InitPortal /\ [][NextPortalRetry]_vars

\* A portal that other code activates and deactivates, timers being run by
\* the browser's event loop: time passes and a due callback is called.
InitPortalFair ==
    /\ DoorwaysConstructed(ShippedScenes)
    /\ LoopLoaded
    /\ SideLoaded
    /\ \E typeOption \in PortalTypeOptions, search \in FairSearches :
          PortalConstructed(typeOption, << >>, << >>, search, << >>)

NextPortalFair ==
    \/ \E hasPlayer \in BOOLEAN, distance \in PlayerDistances :
          VibePortalUpdate(hasPlayer, distance, 0)
    \/ \E k \in 1..Len(navTimers) : NavigationTimerFires(k)
    \/ PortalAdvanceTime
    \/ \E active \in BOOLEAN : SetActive(active)

SpecPortalFair ==
    /\ InitPortalFair
    /\ [][NextPortalFair]_vars
    /\ WF_vars(PortalAdvanceTime)
    /\ WF_vars(\E k \in 1..Len(navTimers) : NavigationTimerFires(k))

\* The same as SpecPortal with punctual timers: a deferred callback runs
\* when it is due, before more time passes.
NextPortalTimely ==
    \/ \E hasPlayer \in BOOLEAN, distance \in PlayerDistances, z \in PlayerHeights :
          VibePortalUpdate(hasPlayer, distance, z)
    \/ \E k \in 1..Len(navTimers) : NavigationTimerFires(k)
    \/ (\A k \in 1..Len(navTimers) : navTimers[k].remaining > 0) /\ PortalAdvanceTime

SpecPortalTimely == InitPortal /\ [][NextPortalTimely]_vars

\* Portals constructed with range options, on one page.
InitPortalRanges ==
    /\ DoorwaysConstructed(ShippedScenes)
    /\ LoopLoaded
    /\ SideLoaded
    /\ \E typeOption \in PortalTypeOptions, interactionOption \in RangeOptions,
          entryOption \in RangeOptions :
          portal = WithRanges(NewVibePortal(typeOption, << >>), interactionOption, entryOption)
    /\ location = [hostname |-> << >>, search |-> << >>]
    /\ selfUsername = << >>
    /\ navTimers = << >>
    /\ navigatedTo = << >>
    /\ portalEvents = << >>
    /\ messages = 0
    /\ lastStep = NoStep

SpecPortalRanges == InitPortalRanges /\ [][NextPortal]_vars

\* The integration loop over a registry.
InitLoop ==
    /\ \E reg \in LoopRegistries : DoorwaysConstructed(reg)
    /\ PortalConstructed(Undefined, << >>, << >>, << >>, << >>)
    /\ LoopLoaded
    /\ SideLoaded

\* Frames with keys going down and up, no player.
NextChords ==
    \/ InitSceneSystem
    \/ UpdateScene(NoPlayer, FALSE)
    \/ \E key \in Keys : KeyDown(key)
    \/ \E key \in Keys : KeyUp(key)

SpecChords == InitLoop /\ [][NextChords]_vars

\* Frames with the player about the portals, the clock running.
NextLoop ==
    \/ InitSceneSystem
    \/ \E f \in LoopFrames : UpdateScene(f[1], f[2])
    \/ \E d \in ClockSteps : ClockAdvances(d)
    \/ \E id \in SceneIds(scenes) : SceneLoaded(id)

SpecLoop == InitLoop /\ [][NextLoop]_vars

\* A manager over every kind of game, no other component acting.
InitManager ==
    /\ DoorwaysConstructed(ShippedScenes)
    /\ PortalConstructed(Undefined, << >>, << >>, << >>, << >>)
    /\ LoopLoaded
    /\ \E game \in GameKinds : ManagerConstructed(game)
    /\ JukeboxConstructed
    /\ TVConstructed
    /\ InteractorConstructed(PortalInteractionDistance)
    /\ DebugControlsLoaded
    /\ enterDown = FALSE
    /\ hist = NoHist

NextManager == \E detail \in EventDetails : HandlePortalEntry(detail)

SpecManager == InitManager /\ [][NextManager]_vars

\* The debug controls on a page, the L key, the auto-run timer and the runs.
InitDebug ==
    /\ DoorwaysConstructed(ShippedScenes)
    /\ \E search \in DebugSearches : PortalConstructed(Undefined, << >>, << >>, search, << >>)
    /\ LoopLoaded
    /\ SideLoaded

NextDebug ==
    \/ InitDebugControls
    \/ KeyDownL
    \/ AutoRunTimerFires
    \/ \E fulfilled \in BOOLEAN : RunSettles(fulfilled)
    \/ DebugTimePasses

SpecDebug == InitDebug /\ [][NextDebug]_vars

\* A PortalEntity or a TrophyEntity, the player moving about it, the Enter key.
InitInteract ==
    /\ DoorwaysConstructed(ShippedScenes)
    /\ PortalConstructed(Undefined, << >>, << >>, << >>, << >>)
    /\ LoopLoaded
    /\ ManagerConstructed("callback")
    /\ JukeboxConstructed
    /\ TVConstructed
    /\ \E d \in {PortalInteractionDistance, TrophyInteractionDistance} :
           InteractorConstructed(d)
    /\ DebugControlsLoaded
    /\ enterDown = FALSE
    /\ hist = NoPress

NextInteract ==
    \/ \E hasPlayer \in BOOLEAN, distance \in InteractorDistances :
           EntityUpdate(hasPlayer, distance)
    \/ InteractTimerFires
    \/ InteractTimePasses
    \/ EntityEnterDown
    \/ EntityEnterUp

SpecInteract == InitInteract /\ [][NextInteract]_vars

\* A jukebox, the player moving about it, the Enter key pressed, held and released.
InitJukebox ==
    /\ DoorwaysConstructed(ShippedScenes)
    /\ PortalConstructed(Undefined, << >>, << >>, << >>, << >>)
    /\ LoopLoaded
    /\ ManagerConstructed("callback")
    /\ JukeboxConstructed
    /\ TVConstructed
    /\ InteractorConstructed(PortalInteractionDistance)
    /\ DebugControlsLoaded
    /\ enterDown = FALSE
    /\ hist = NoJukeboxPress

NextJukebox ==
    \/ JukeboxEnterDown
    \/ JukeboxEnterRepeat
    \/ JukeboxEnterUp
    \/ JukeboxEscapeDown
    \/ JukeboxCloseClick
    \/ JukeboxCleanup
    \/ JukeboxTimerFires
    \/ \E hasPlayer \in BOOLEAN, distance \in JukeboxDistances :
           JukeboxUpdate(hasPlayer, distance)
    \/ \E elapsed \in JukeboxSteps : JukeboxTimePasses(elapsed)

SpecJukebox == InitJukebox /\ [][NextJukebox]_vars

\* A TV, the player moving about it, the Enter and Escape keys, the close button.
InitTV ==
    /\ DoorwaysConstructed(ShippedScenes)
    /\ PortalConstructed(Undefined, << >>, << >>, << >>, << >>)
    /\ LoopLoaded
    /\ ManagerConstructed("callback")
    /\ JukeboxConstructed
    /\ TVConstructed
    /\ InteractorConstructed(PortalInteractionDistance)
    /\ DebugControlsLoaded
    /\ enterDown = FALSE
    /\ hist = NoTVCall

NextTV ==
    \/ TVEnterDown
    \/ TVEnterRepeat
    \/ TVEnterUp
    \/ TVEscapeDown
    \/ TVCloseClick
    \/ \E hasPlayer \in BOOLEAN, distance \in TVDistances : TVUpdate(hasPlayer, distance)
    \/ TVResetTimerFires
    \/ TVTimePasses
    \/ TVCleanup

SpecTV == InitTV /\ [][NextTV]_vars

\* ------------------------------------------------------------------------
\* Claims
\* ------------------------------------------------------------------------

Door(ref) == doorwaysByScene[ref[1]][ref[2]]
ExitOf(ref) == SceneById(scenes, ref[1]).exits[ref[2]]
PendingFor(ref) == {t \in timers : t.door = ref}
Loads == {frame.loads[i] : i \in 1..Len(frame.loads)}

\* C1: an update that reports the player near cancels the pending close of
\* an open wall doorway, so no close timer stays pending once an update has
\* reported the player near since it was scheduled.  (The claim as stated;
\* the code leaves the timer pending when the door is already open.  Runs
\* that use the debugging helper forceDoorState are left aside.)
C1_NearCancelsPendingClose == forceCalls = 0 => \A t \in timers : ~t.nearSince

\* C2: after a DoorwayManager.update call, every wall doorway for which the
\* call reported the player near is open.
C2_NearUpdateOpens ==
    frame.called => \A r \in frame.near : Door(r).isWallDoorway => Door(r).isOpen

\* C2 witness: an update has just opened a wall doorway that was closed.
C2_Witness == frame.called /\ \E r \in frame.opened : r \in frame.near /\ Door(r).isOpen

\* C3: every doorway has at most one pending close timer, and its
\* closeTimeout holds a handle (that timer's) exactly when one is pending;
\* with none pending it is null (or was never assigned).
C3_OneCloseTimer ==
    \A r \in AllRefs(doorwaysByScene) :
        /\ Cardinality(PendingFor(r)) <= 1
        /\ Truthy(Door(r).closeTimeout) <=> PendingFor(r) # {}
        /\ \A t \in PendingFor(r) : Door(r).closeTimeout = Handle(t.id)

\* C3 witness: a close timer is pending, and another doorway's has fired or
\* been cancelled (its closeTimeout is null again).
C3_Witness ==
    /\ \E r \in AllRefs(doorwaysByScene) : PendingFor(r) # {}
    /\ \E r \in AllRefs(doorwaysByScene) : Door(r).closeTimeout = NullHandle

\* C4: update calls loadScene only with transitionCooldown <= 0 at the check,
\* the player near and a doorway that is not a wall doorway, and after the
\* call transitionCooldown is exactly 0.5 s.
C4_TransitionGated ==
    /\ \A l \in Loads :
          /\ l.cooldownAtCheck <= 0
          /\ l.isPlayerNear
          /\ ~l.isWallDoorway
          /\ l.cooldownAfter = CooldownAfterTransition
    /\ frame.loads # <<>> => transitionCooldown = CooldownAfterTransition

\* C4 witness: an update has just called loadScene.
C4_Witness == frame.called /\ frame.loads # <<>>

\* C5: update never calls loadScene for a wall doorway.
C5_WallNeverLoads == \A l \in Loads : ~Door(l.door).isWallDoorway

\* C5 witness: an update found the player near a wall doorway with the
\* cooldown expired, and called loadScene for nothing.
C5_Witness ==
    /\ frame.called /\ frame.loads = <<>> /\ transitionCooldown <= 0
    /\ \E r \in frame.near : Door(r).isWallDoorway

\* Squared grid distance (hundredths) between a doorway and a position.
Dist2(door, p) ==
    (door.gridX - p[1]) * (door.gridX - p[1]) + (door.gridY - p[2]) * (door.gridY - p[2])

Seen == frame.near \cup frame.far

C7_ComingSoonNeverLoads == \A l \in Loads : ~ExitOf(l.door).comingSoon

\* C8: loadScene is never called for a doorway whose target is undefined.
\* (The claim as stated; update has no such guard.)
C8_UndefinedTargetNeverLoads == \A l \in Loads : l.target # Undefined

\* ------------------------------------------------------------------------
\* VibePortalEntity: the URLs built
\* ------------------------------------------------------------------------

\* the name=value pieces of the query string that follows target in url
QueryPieces(url, target) == Split(Drop(url, Len(target) + 1), "&")

\* every URL the portal has built so far: dispatched, pending, navigated to
BuiltUrls ==
    {portalEvents[k].targetUrl : k \in 1..Len(portalEvents)}
    \cup {navTimers[k].nextPage : k \in 1..Len(navTimers)}
    \cup (IF navigatedTo # << >> THEN {navigatedTo} ELSE {})

\* the domain an exit portal reports: the hostname, or the fallback when empty
DomainOrFallback == IF location.hostname # << >> THEN location.hostname ELSE FallbackDomain

\* C9 (as stated): for an exit portal, every URL built by an accepted
\* enterPortal, and the one navigated to, is targetUrl, "?", and a query
\* string with portal=true and ref=<current hostname>.
C9_ExitUrlCarriesHostname ==
    portal.portalType = "exit" =>
        /\ navigatedTo # << >> => \E k \in 1..Len(portalEvents) :
                                      portalEvents[k].targetUrl = navigatedTo
        /\ \A url \in BuiltUrls :
              /\ StartsWith(url, portal.targetUrl \o <<"?">>)
              /\ LET q == URLSearchParams(Drop(url, Len(portal.targetUrl)))
                 IN /\ \E k \in 1..Len(q) : q[k] = <<KeyPortal, TextTrue>>
                    /\ \E k \in 1..Len(q) : q[k] = <<KeyRef, location.hostname>>

\* C9 (amended): for an exit portal, every URL built by an accepted
\* enterPortal, and the one navigated to, is targetUrl, "?", and a query
\* string with the pieces portal=true and ref=<domain>, form-urlencoded, the
\* domain being the current hostname, or alchemistslair.local when the
\* hostname is empty.
C9_ExitUrlCarriesHostnameOrFallback ==
    portal.portalType = "exit" =>
        /\ navigatedTo # << >> => \E k \in 1..Len(portalEvents) :
                                      portalEvents[k].targetUrl = navigatedTo
        /\ \A url \in BuiltUrls :
              /\ StartsWith(url, portal.targetUrl \o <<"?">>)
              /\ LET pieces == QueryPieces(url, portal.targetUrl)
                 IN /\ \E k \in 1..Len(pieces) : pieces[k] = KeyPortal \o <<"=">> \o TextTrue
                    /\ \E k \in 1..Len(pieces) :
                          pieces[k] = KeyRef \o <<"=">> \o FormEncode(DomainOrFallback)

\* an exit portal on a page with no hostname has navigated
C9_Witness ==
    /\ portal.portalType = "exit"
    /\ location.hostname = << >>
    /\ selfUsername # << >>
    /\ navigatedTo # << >>

\* the deferred step of the portal has run
DeferredStepRan == messages > 0 \/ navigatedTo # << >>

IsRef(pair) == pair[1] = KeyRef

\* url is ref with its scheme, then nothing when others is empty, else "?"
\* and a query string that reads back as exactly others
IsRefThenOthers(url, ref, others) ==
    LET head == IF StartsWith(ref, SchemeHttp) \/ StartsWith(ref, SchemeHttps)
                THEN ref
                ELSE SchemeHttps \o ref
        rest == Drop(url, Len(head))
    IN /\ StartsWith(url, head)
       /\ IF others = << >>
          THEN rest = << >>
          ELSE /\ rest # << >>
               /\ Head(rest) = "?"
               /\ URLSearchParams(Tail(rest)) = others

\* C10 (as stated): for a start portal whose page URL has a ref parameter,
\* the deferred step navigates to ref (https:// prepended unless it starts
\* with http:// or https://), then "?" and the other parameters in order,
\* every ref removed, nothing added; no "?" when there are no others.
C10_StartFollowsRef ==
    LET params == URLSearchParams(location.search)
    IN (portal.portalType = "start" /\ DeferredStepRan /\ \E k \in 1..Len(params) : IsRef(params[k]))
       => /\ navigatedTo # << >>
          /\ IsRefThenOthers(navigatedTo, ParamsGet(params, KeyRef).value,
                             SelectSeq(params, IsNotRef))

\* C10 (amended): for a start portal whose page URL has a ref parameter, the
\* first of them not empty, the deferred step navigates to that ref (https://
\* prepended unless it starts with http:// or https://), then "?" and the
\* other parameters in order, re-serialised, every ref removed, nothing
\* added; no "?" when there are no others; no message is shown. With
\* ?ref=foo.com&x=1 the destination is https://foo.com?x=1.
C10_StartFollowsNonEmptyRef ==
    LET params == URLSearchParams(location.search)
        ref == ParamsGet(params, KeyRef)
    IN (portal.portalType = "start" /\ DeferredStepRan /\ ref.found /\ ref.value # << >>)
       => /\ navigatedTo # << >>
          /\ messages = 0
          /\ IsRefThenOthers(navigatedTo, ref.value, SelectSeq(params, IsNotRef))
          /\ location.search = <<"?", "r", "e", "f", "=", "f", "o", "o", ".", "c", "o", "m", "&", "x", "=", "1">>
                => navigatedTo = <<"h", "t", "t", "p", "s", ":", "/", "/", "f", "o", "o", ".", "c", "o", "m", "?", "x", "=", "1">>

\* a start portal has followed a ref without scheme, the page URL holding
\* two ref parameters and others
C10_Witness ==
    LET params == URLSearchParams(location.search)
    IN /\ portal.portalType = "start"
       /\ navigatedTo # << >>
       /\ Len(SelectSeq(params, IsRef)) = 2
       /\ Len(SelectSeq(params, IsNotRef)) > 0

\* ------------------------------------------------------------------------
\* VibePortalEntity: failed entries, the entry cooldown, height
\* ------------------------------------------------------------------------

\* the first ref parameter of the page URL, as get('ref') returns it
CurrentRef == ParamsGet(URLSearchParams(location.search), KeyRef)

\* the latest step was a call of enterPortal
EnterPortalCalled == lastStep.kind \in {"accepted", "rejected"}

\* C11: for a start portal on a page whose URL has no ref parameter, or an
\* empty one, every deferred step that has run has shown the message, and
\* window.location has not been assigned.
C11_NoRefShowsMessage ==
    (portal.portalType = "start" /\ ~(CurrentRef.found /\ CurrentRef.value # << >>))
    => /\ navigatedTo = << >>
       /\ messages = Len(portalEvents) - Len(navTimers)
       /\ lastStep.kind # "navigated"

\* a start portal on a page with an empty ref parameter has shown its message
C11_Witness ==
    /\ portal.portalType = "start"
    /\ CurrentRef.found
    /\ CurrentRef.value = << >>
    /\ messages > 0
    /\ lastStep.kind = "message"

\* C12: while the last accepted entry is less than 2000 ms old, no step
\* dispatches a portal-entry event, schedules a navigation or resets
\* _lastEntryTime; an enterPortal call then leaves _lastEntryTime as it was.
C12_EntryWithinCooldownIgnored ==
    [][(portal.lastEntry.set /\ portal.lastEntry.age < EntryCooldownMs)
       => /\ portalEvents' = portalEvents
          /\ Len(navTimers') <= Len(navTimers)
          /\ portal'.lastEntry.set
          /\ portal'.lastEntry.age >= portal.lastEntry.age
          /\ lastStep'.kind \in {"accepted", "rejected"}
                => portal'.lastEntry = portal.lastEntry]_vars

\* enterPortal has just been called some time into the cooldown, the player
\* inside the entry radius
C12_Witness ==
    /\ lastStep.kind = "rejected"
    /\ lastStep.lastEntry.age > 0
    /\ lastStep.distance <= portal.entryDetectionRange
    /\ Len(portalEvents) = 1

\* C13: a start portal stays active after it has shown its message; an
\* enterPortal call 2000 ms or more after the last accepted entry is then
\* processed in full (the event dispatched, the navigation scheduled, the
\* entry time reset), and its deferred step navigates when the page URL now
\* has a usable ref and shows the message again when not.
C13_FailedEntryLeavesPortalUsable ==
    /\ portal.isActive
    /\ (portal.portalType = "start" /\ messages > 0)
       => /\ (EnterPortalCalled /\ lastStep.lastEntry.age >= EntryCooldownMs)
             => /\ Len(portalEvents) = lastStep.events + 1
                /\ portalEvents[Len(portalEvents)].portalType = "start"
                /\ \E k \in 1..Len(navTimers) : navTimers[k].remaining = NavigationDelayMs
                /\ portal.lastEntry = [set |-> TRUE, age |-> 0]
          /\ lastStep.kind = "message"
             => /\ ~(CurrentRef.found /\ CurrentRef.value # << >>)
                /\ navigatedTo = << >>
          /\ lastStep.kind = "navigated"
             => /\ CurrentRef.found /\ CurrentRef.value # << >>
                /\ navigatedTo # << >>
                /\ StartsWith(navigatedTo, RefWithScheme(CurrentRef.value))

\* a start portal that had shown its message has navigated on a later entry,
\* the page URL having gained a ref
C13_Witness ==
    /\ portal.portalType = "start"
    /\ messages > 0
    /\ Len(portalEvents) = 2
    /\ lastStep.kind = "navigated"

\* C15: VibePortalEntity.update calls enterPortal only in a frame where the
\* player's height z is at most 0.1.
C15_AirborneNeverEnters == EnterPortalCalled => lastStep.z <= GroundedMaxZ

\* ------------------------------------------------------------------------
\* Scene integration loop: portals, chords, rendering
\* ------------------------------------------------------------------------

\* the player's grid position in the latest updateScene call
FrameGridX == PlayerGridX(sceneFrame.player)
FrameGridY == PlayerGridY(sceneFrame.player)

\* the portals of the scene of the latest updateScene call, as a set
FramePortals ==
    LET portals == GetPortalsForScene(scenes, sceneFrame.scene)
    IN {portals[i] : i \in 1..Len(portals)}

\* C14: an updateScene call invokes transitionThroughPortal only with
\* player.z defined and at most 0.1; with z above 0.1 or undefined no
\* transition is started, a portal nearby or not.
C14_TransitionOnlyGrounded ==
    sceneFrame.called
    => /\ sceneFrame.transitioned # << >>
          => /\ sceneFrame.player.z # << >>
             /\ sceneFrame.player.z[1] <= GroundedMaxZ
       /\ (sceneFrame.nearbyPortals # << >>
           /\ sceneFrame.player.z # << >> /\ sceneFrame.player.z[1] <= GroundedMaxZ)
          => sceneFrame.transitioned = <<sceneFrame.nearbyPortals[1]>>

\* a frame with a portal nearby and a player whose z is undefined: no transition
C14_Witness ==
    /\ sceneFrame.called
    /\ sceneFrame.nearbyPortals # << >>
    /\ sceneFrame.player.defined
    /\ sceneFrame.player.z = << >>
    /\ sceneFrame.transitioned = << >>

\* C16: a chord that has called transitionTo and has been held since does not
\* call it again in a later updateScene frame.
C16_HeldChordFiresOnce == sceneFrame.called => sceneFrame.repeats = {}

\* C17: a frame renders only with the re-render flag set or more than 16 ms
\* after lastRenderTime, and lastRenderTime changes only in a frame that
\* renders, to the time of that frame.
C17_RenderGate ==
    /\ [](sceneFrame.called
          => /\ sceneFrame.rendered
                => \/ sceneFrame.forceRerender
                   \/ sceneFrame.now - sceneFrame.lastRenderBefore > RenderInterval
             /\ lastRenderTime = IF sceneFrame.rendered THEN sceneFrame.now
                                 ELSE sceneFrame.lastRenderBefore)
    /\ [][lastRenderTime' # lastRenderTime
          => /\ sceneFrame'.called
             /\ sceneFrame'.rendered
             /\ lastRenderTime' = clock
             /\ sceneFrame'.forceRerender \/ clock - lastRenderTime > RenderInterval]_vars

\* a frame exactly 16 ms after the last render, without the flag: not rendered
C17_Witness ==
    /\ sceneFrame.called
    /\ sceneRenderer
    /\ sceneFrame.scene # Null
    /\ ~sceneFrame.forceRerender
    /\ sceneFrame.now - sceneFrame.lastRenderBefore = RenderInterval
    /\ ~sceneFrame.rendered

\* C18: every updateScene call with a current scene and a player whose x and
\* y are defined runs the portal detection, rendering or not: a portal within
\* 0.25 of the player's grid position is found.
C18_DetectionEveryFrame ==
    (/\ sceneFrame.called
     /\ sceneFrame.scene # Null
     /\ sceneFrame.player.defined
     /\ sceneFrame.player.x # << >>
     /\ sceneFrame.player.y # << >>)
    => /\ sceneFrame.detected
       /\ sceneFrame.foundCustomPortal \/ sceneFrame.getNearbyCalled
       /\ (\E q \in FramePortals : Chebyshev(q, FrameGridX, FrameGridY) <= ArcadePortalThreshold)
          => sceneFrame.nearbyPortals # << >>

\* a frame held back by the render gate has started a portal transition, the
\* player carrying no grid coordinates
C18_Witness ==
    /\ sceneFrame.called
    /\ sceneRenderer
    /\ ~sceneFrame.rendered
    /\ sceneFrame.player.gridX = << >>
    /\ sceneFrame.transitioned # << >>

\* C19: in a frame where the player is within the threshold of a portal that
\* has one of its own, the result is that one portal (the first such) and
\* getNearbyPortals is not called.
C19_OverrideShortCircuits ==
    (sceneFrame.called /\ sceneFrame.detected)
    => LET hits == {q \in FramePortals :
                       /\ q.id \in sceneFrame.overrides
                       /\ Chebyshev(q, FrameGridX, FrameGridY) <= ArcadePortalThreshold}
       IN hits # {}
          => /\ sceneFrame.foundCustomPortal
             /\ ~sceneFrame.getNearbyCalled
             /\ Len(sceneFrame.nearbyPortals) = 1
             /\ \E q \in hits : sceneFrame.nearbyPortals = <<q.id>>

\* the override has matched in a frame where the standard scan would have
\* put another portal first
C19_Witness ==
    /\ sceneFrame.called
    /\ sceneFrame.detected
    /\ sceneFrame.foundCustomPortal
    /\ LET standard == GetNearbyPortals(scenes, FrameGridX, FrameGridY, sceneFrame.scene,
                                        DefaultPortalThreshold)
       IN Len(standard) > 1 /\ standard[1] # sceneFrame.nearbyPortals[1]

\* C20: a portal with a threshold of its own is not transitioned through in a
\* frame where the player is farther from it than that threshold.
C20_TightThresholdRespected ==
    (sceneFrame.called /\ sceneFrame.detected)
    => \A q \in FramePortals :
          (q.id \in sceneFrame.overrides
           /\ Chebyshev(q, FrameGridX, FrameGridY) > ArcadePortalThreshold)
          => sceneFrame.transitioned # <<q.id>>

\* ------------------------------------------------------------------------
\* VibePortalEntity: ranges, username, fire-and-forget, targetUrl
\* ------------------------------------------------------------------------

\* C21: every portal has entryDetectionRange <= interactionDistance, and
\* whenever update has called enterPortal isPlayerNearby is true.
C21_EntryRangeWithinInteraction ==
    /\ portal.entryDetectionRange <= portal.interactionDistance
    /\ EnterPortalCalled => portal.isPlayerNearby

\* every nextPage that enterPortal has built so far: dispatched or pending
OutboundUrls ==
    {portalEvents[k].targetUrl : k \in 1..Len(portalEvents)}
    \cup {navTimers[k].nextPage : k \in 1..Len(navTimers)}

IsUsername(pair) == pair[1] = KeyUsername

\* C24: every URL built by enterPortal, whatever the portal type, is
\* targetUrl followed by a query string that holds portal=true; it holds a
\* username parameter exactly when the identity value is set, once, with
\* the identity as its value.
C24_UsernameIffIdentity ==
    \A url \in OutboundUrls :
        /\ StartsWith(url, portal.targetUrl \o <<"?">>)
        /\ LET q == URLSearchParams(Drop(url, Len(portal.targetUrl)))
               names == SelectSeq(q, IsUsername)
           IN /\ \E k \in 1..Len(q) : q[k] = <<KeyPortal, TextTrue>>
              /\ selfUsername # << >> => names = <<<<KeyUsername, selfUsername>>>>
              /\ selfUsername = << >> => names = << >>

\* a start portal has built a URL for an identity that contains a space
C24_Witness ==
    /\ portal.portalType = "start"
    /\ selfUsername = <<"a", " ", "b">>
    /\ Len(portalEvents) > 0

\* an exit portal has built a URL with no identity set
C24_WitnessNoIdentity ==
    /\ portal.portalType = "exit"
    /\ selfUsername = << >>
    /\ Len(portalEvents) > 0

\* C25: what the deferred step of a start portal does is decided by the
\* page URL at the time it runs, never by the configured targetUrl: with a
\* usable ref it navigates to that ref (with scheme) followed by the other
\* current parameters, otherwise it shows the message and does not navigate.
C25_StartIgnoresTargetUrl ==
    LET params == URLSearchParams(location.search)
    IN portal.portalType = "start"
       => /\ lastStep.kind = "navigated"
             => /\ CurrentRef.found /\ CurrentRef.value # << >>
                /\ IsRefThenOthers(navigatedTo, CurrentRef.value, SelectSeq(params, IsNotRef))
          /\ lastStep.kind = "message"
             => /\ ~(CurrentRef.found /\ CurrentRef.value # << >>)
                /\ navigatedTo = << >>

\* a start portal with a configured targetUrl, on a page whose ref appeared
\* after construction (its first entry showed the message), has navigated
C25_Witness ==
    /\ portal.portalType = "start"
    /\ portal.targetUrl # DefaultTargetUrl
    /\ messages > 0
    /\ lastStep.kind = "navigated"

\* the number of deferred steps that have run
StepsRun == Len(portalEvents) - Len(navTimers)

\* C23: a pending deferred step leaves the timer list only by running, and
\* every accepted entry is followed by its deferred step running (or by the
\* page having been left through an earlier one), whatever the player and
\* isActive do in the meantime.
C23_DeferredStepAlwaysRuns ==
    /\ [][Len(navTimers') < Len(navTimers)
            => lastStep'.kind \in {"navigated", "message"}]_vars
    /\ \A n \in 1..(MaxEntries + 1) :
          (Len(portalEvents) = n) ~> (StepsRun >= n \/ navigatedTo # << >>)

\* a deferred step has run with the portal inactive and the player away
C23_Witness ==
    /\ lastStep.kind \in {"navigated", "message"}
    /\ ~portal.isActive
    /\ ~portal.isPlayerNearby

\* ------------------------------------------------------------------------
\* Doorways: construction, floor portals, the active list
\* ------------------------------------------------------------------------

\* C22: a doorway built from an exit with a cardinal direction is a wall
\* doorway, on the north side for north and south, on the west side for east
\* and west; a doorway with any other direction is no wall doorway and has
\* wallSide null.
C22_WallSideOfDirection ==
    \A r \in AllRefs(doorwaysByScene) :
        LET direction == ExitOf(r).direction
        IN /\ direction \in {"north", "south"}
              => Door(r).isWallDoorway /\ Door(r).wallSide = "north"
           /\ direction \in {"east", "west"}
              => Door(r).isWallDoorway /\ Door(r).wallSide = "west"
           /\ direction \notin {"north", "south", "east", "west"}
              => ~Door(r).isWallDoorway /\ Door(r).wallSide = Null

\* doorways of a north, an east and a non-cardinal exit have been built
C22_Witness ==
    /\ \E r \in AllRefs(doorwaysByScene) : ExitOf(r).direction = "north" /\ Door(r).isWallDoorway
    /\ \E r \in AllRefs(doorwaysByScene) :
          ExitOf(r).direction \notin {"north", "south", "east", "west"} /\ ~Door(r).isWallDoorway
    /\ frame.called

\* C27: a doorway that is no wall doorway is never open, never holds a close
\* handle and never has a close timer pending.
C27_FloorPortalHasNoDoorState ==
    \A r \in AllRefs(doorwaysByScene) :
        ~Door(r).isWallDoorway
        => /\ ~Door(r).isOpen
           /\ Door(r).closeTimeout = NoHandle
           /\ PendingFor(r) = {}

\* an update has reported the player near a floor portal, after a
\* forceDoorState call
C27_Witness ==
    /\ frame.called
    /\ forceCalls > 0
    /\ \E r \in frame.near : ~Door(r).isWallDoorway

\* C28: doorways are created at construction, one per exit of every scene in
\* registry order, and keep the direction, target, grid position,
\* isWallDoorway and wallSide they were built with; no step removes or
\* reorders an entry of doorwaysByScene, and DoorwayManager.update never adds
\* one (only a processDoorway call does, after the built ones).
C28_BuiltDoorwaysKept ==
    /\ SceneIds(scenes) \subseteq DOMAIN doorwaysByScene
    /\ \A id \in SceneIds(scenes) :
          /\ Len(doorwaysByScene[id]) >= Len(SceneById(scenes, id).exits)
          /\ \A k \in 1..Len(SceneById(scenes, id).exits) :
                LET door == doorwaysByScene[id][k]
                    built == InitDoorways(scenes)[id][k]
                    exit == SceneById(scenes, id).exits[k]
                IN /\ door.direction = exit.direction
                   /\ door.targetScene = exit.to
                   /\ door.gridX = built.gridX
                   /\ door.gridY = built.gridY
                   /\ door.isWallDoorway = built.isWallDoorway
                   /\ door.wallSide = built.wallSide

C28_EntriesStay ==
    /\ \A r \in AllRefs(doorwaysByScene) :
          /\ r \in AllRefs(doorwaysByScene')
          /\ LET door == doorwaysByScene[r[1]][r[2]]
                 after == doorwaysByScene'[r[1]][r[2]]
             IN /\ after.direction = door.direction
                /\ after.targetScene = door.targetScene
                /\ after.gridX = door.gridX
                /\ after.gridY = door.gridY
                /\ after.isWallDoorway = door.isWallDoorway
                /\ after.wallSide = door.wallSide
    /\ frame'.called => AllRefs(doorwaysByScene') = AllRefs(doorwaysByScene)

\* at construction: exactly the scenes of the registry, one doorway per exit
C28_OnePerExit ==
    /\ DOMAIN doorwaysByScene = SceneIds(scenes)
    /\ \A id \in SceneIds(scenes) :
          Len(doorwaysByScene[id]) = Len(SceneById(scenes, id).exits)

C28_DoorwaysBuiltOnce ==
    /\ C28_OnePerExit
    /\ []C28_BuiltDoorwaysKept
    /\ [][C28_EntriesStay]_vars

\* an update has just run a transition of a scene that holds a doorway added
\* by processDoorway after the built ones, a close timer having fired before
C28_Witness ==
    /\ frame.called
    /\ frame.loads # << >>
    /\ currentScene \in SceneIds(scenes)
    /\ Len(doorwaysByScene[currentScene]) > Len(SceneById(scenes, currentScene).exits)
    /\ \E r \in AllRefs(doorwaysByScene) : Door(r).closeTimeout = NullHandle

\* C29: after every update call activeDoorways is the doorway list of the
\* scene the SceneManager reports as current, the empty list with none.
C29_ActiveDoorwaysOfCurrentScene ==
    frame.called
    => activeDoorways = IF currentScene = Null THEN << >>
                        ELSE DoorwaysOf(doorwaysByScene, currentScene)

\* ------------------------------------------------------------------------
\* Scene integration loop: the override distance
\* ------------------------------------------------------------------------

\* C30: in a frame that runs the detection, the override check matches
\* exactly when some portal with a threshold t of its own has
\* max(|portal.gridX - playerGridX|, |portal.gridY - playerGridY|) <= t; the
\* portal it reports is one of those.
C30_OverrideIsChebyshevInclusive ==
    (sceneFrame.called /\ sceneFrame.detected)
    => LET dx(q) == Abs(q.gridX - FrameGridX)
           dy(q) == Abs(q.gridY - FrameGridY)
           within == {q \in FramePortals :
                         /\ q.id \in sceneFrame.overrides
                         /\ dx(q) <= ArcadePortalThreshold
                         /\ dy(q) <= ArcadePortalThreshold}
       IN /\ sceneFrame.foundCustomPortal <=> within # {}
          /\ sceneFrame.foundCustomPortal
             => \E q \in within : sceneFrame.nearbyPortals = <<q.id>>

\* the override has matched with the player exactly the threshold away on
\* both axes
C30_Witness ==
    /\ sceneFrame.called
    /\ sceneFrame.detected
    /\ sceneFrame.foundCustomPortal
    /\ \E q \in FramePortals :
          /\ sceneFrame.nearbyPortals = <<q.id>>
          /\ Abs(q.gridX - FrameGridX) = ArcadePortalThreshold
          /\ Abs(q.gridY - FrameGridY) = ArcadePortalThreshold

\* the override has not matched with the player more than the threshold
\* away on one axis only
C30_WitnessOutside ==
    /\ sceneFrame.called
    /\ sceneFrame.detected
    /\ ~sceneFrame.foundCustomPortal
    /\ \E q \in FramePortals :
          /\ q.id \in sceneFrame.overrides
          /\ Abs(q.gridX - FrameGridX) > ArcadePortalThreshold
          /\ Abs(q.gridY - FrameGridY) <= ArcadePortalThreshold

\* ------------------------------------------------------------------------
\* Doorways: the automatic close
\* ------------------------------------------------------------------------

\* C26: once an update has found the player not near an open wall doorway
\* of the active scene, the door becomes closed with closeTimeout null (its
\* close timer fires), unless an update finds the player near it again first.
C26_OpenDoorCloses ==
    \A r \in ShippedRefs :
        (frame.called /\ r \in frame.far /\ Door(r).isWallDoorway /\ Door(r).isOpen)
        ~> \/ ~Door(r).isOpen /\ Door(r).closeTimeout = NullHandle
           \/ frame.called /\ r \in frame.near

\* a door that an update left open with the player away is closed, its
\* handle null, no timer pending, and no update has run since
C26_Witness ==
    \E r \in ShippedRefs :
        /\ ~frame.called
        /\ Door(r).isWallDoorway
        /\ ~Door(r).isOpen
        /\ Door(r).closeTimeout = NullHandle
        /\ timers = {}
        /\ forceCalls = 0

\* ------------------------------------------------------------------------
\* DoorwayManager.update: the cooldown, one load per frame, the shipped registry
\* ------------------------------------------------------------------------

\* C31 (as stated): after an update call in which no transition fires,
\* transitionCooldown is its value before the call minus deltaTime.
C31_CooldownDecremented ==
    (frame.called /\ frame.loads = << >>)
    => transitionCooldown = frame.cooldownBefore - frame.deltaTime

\* C31 (amended): after an update call in which no transition fires,
\* transitionCooldown is its value before the call minus deltaTime when that
\* value was above 0, and is unchanged when it was 0 or below.
C31_CooldownDecrementedWhilePositive ==
    (frame.called /\ frame.loads = << >>)
    => transitionCooldown = IF frame.cooldownBefore > 0
                            THEN frame.cooldownBefore - frame.deltaTime
                            ELSE frame.cooldownBefore

\* an update without transition has found the cooldown below 0 and left it
C31_Witness ==
    /\ frame.called
    /\ frame.loads = << >>
    /\ frame.cooldownBefore < 0
    /\ transitionCooldown = frame.cooldownBefore

\* an update without transition has decreased a positive cooldown
C31_WitnessPositive ==
    /\ frame.called
    /\ frame.loads = << >>
    /\ frame.cooldownBefore > 0
    /\ transitionCooldown = frame.cooldownBefore - frame.deltaTime

\* the positions in activeDoorways of the floor portals the latest update
\* found the player near
NearFloorPortals ==
    {k \in 1..Len(activeDoorways) :
        activeDoorways[k] \in frame.near /\ ~Door(activeDoorways[k]).isWallDoorway}

\* C32: one update call calls loadScene at most once, for the first floor
\* portal of the active list that the player is near, and has updated every
\* doorway of the list.
C32_OneLoadPerUpdate ==
    frame.called
    => /\ Len(frame.loads) <= 1
       /\ frame.loads # << >>
          => /\ NearFloorPortals # {}
             /\ frame.loads[1].door =
                   activeDoorways[CHOOSE k \in NearFloorPortals :
                                     \A j \in NearFloorPortals : k <= j]
       /\ Seen = {activeDoorways[k] : k \in 1..Len(activeDoorways)}

\* an update with the player near two floor portals has loaded one scene
C32_Witness ==
    /\ frame.called
    /\ Len(frame.loads) = 1
    /\ Cardinality(NearFloorPortals) >= 2

\* C34: with the shipped registry every doorway is a wall doorway, update
\* never calls loadScene and transitionCooldown stays 0.
C34_ShippedRegistryNeverLoads ==
    scenes = ShippedScenes
    => /\ \A r \in AllRefs(doorwaysByScene) :
             /\ ExitOf(r).direction \in {"north", "south", "east", "west"}
             /\ Door(r).isWallDoorway
       /\ frame.loads = << >>
       /\ transitionCooldown = 0

\* with the shipped registry an update has found the player near the east
\* door of startRoom, whose exit is flagged comingSoon
C34_Witness ==
    /\ scenes = ShippedScenes
    /\ frame.called
    /\ \E r \in frame.near : ExitOf(r).direction = "east" /\ Door(r).isOpen

\* ------------------------------------------------------------------------
\* VibePortalEntity: pending navigations
\* ------------------------------------------------------------------------

\* C33: with timers that run when due, a portal never has more than one
\* deferred navigation pending.
C33_OnePendingNavigation == Len(navTimers) <= 1

\* a second entry has been accepted and its navigation is the only one pending
C33_Witness ==
    /\ Len(portalEvents) = 2
    /\ Len(navTimers) = 1
    /\ navTimers[1].remaining = NavigationDelayMs

\* ------------------------------------------------------------------------
\* Scene integration loop: one transition per frame
\* ------------------------------------------------------------------------

\* C35: one updateScene call calls transitionThroughPortal at most once, and
\* then with the first element of that frame's nearby-portal list.
C35_OneTransitionPerFrame ==
    sceneFrame.called
    => /\ Len(sceneFrame.transitioned) <= 1
       /\ sceneFrame.transitioned # << >>
          => /\ sceneFrame.nearbyPortals # << >>
             /\ sceneFrame.transitioned[1] = sceneFrame.nearbyPortals[1]

\* a frame with several portals nearby has transitioned through one
C35_Witness ==
    /\ sceneFrame.called
    /\ Len(sceneFrame.nearbyPortals) >= 2
    /\ Len(sceneFrame.transitioned) = 1


\* C36: VibePortalManager.handlePortalEntry never navigates; for each
\* portal-entry event it calls game.onPortalEntry exactly once with the
\* event's portalType and targetUrl when the game provides that callback (and
\* not at all otherwise), and dispatches exactly one game-portal-entry event
\* carrying the same portalType and targetUrl.
C36_HandlerCallsAndDispatchesOnce ==
    hist.kind = "handled"
    => /\ navigatedTo = << >>
       /\ location = [hostname |-> << >>, search |-> << >>]
       /\ Len(manager.events) = hist.events + 1
       /\ manager.events[Len(manager.events)].portalType = hist.detail.portalType
       /\ manager.events[Len(manager.events)].targetUrl = hist.detail.targetUrl
       /\ IF manager.game = "callback"
          THEN /\ Len(manager.calls) = hist.calls + 1
               /\ manager.calls[Len(manager.calls)] =
                      <<hist.detail.portalType, hist.detail.targetUrl>>
          ELSE manager.calls = << >>

\* a second event handled by a manager whose game has the callback, for an
\* exit portal (the URL carries the query string)
C36_Witness ==
    /\ hist.kind = "handled"
    /\ manager.game = "callback"
    /\ Len(manager.events) = 2
    /\ Len(manager.calls) = 2
    /\ hist.detail.portalType = "exit"
    /\ Len(hist.detail.targetUrl) > Len(DefaultTargetUrl)

\* the same for a manager without a game: the event is still dispatched
C36_WitnessNoGame ==
    /\ hist.kind = "handled"
    /\ manager.game = "null"
    /\ Len(manager.events) = 1


\* C40: in debugControls at most one scene-test run is in progress at any
\* time: runSceneTests is never started while a previous run has not yet
\* settled, and testsRunning is true exactly while a run is in progress.
C40_OneRunAtATime ==
    /\ debugCtl.running <= 1
    /\ hist.kind = "started" => hist.running = 0
    /\ debugCtl.testsRunning <=> debugCtl.running > 0


\* C39: PortalEntity and TrophyEntity schedule interact() only on a new
\* Enter press made while the player is in range: a press schedules at most
\* one interact however long the key is held, and an Enter key already held
\* when the player walks into range schedules none.
C39_InteractOnlyOnPressInRange ==
    /\ hist.scheduled <= 1
    /\ hist.isNew => ~hist.heldOutside

\* the part of C39 about a held key: one press never schedules two interacts
C39_HeldKeySchedulesOnce == hist.scheduled <= 1


\* C37: the jukebox toggles only on a new Enter press, not while Enter is
\* held: from the moment Enter is pressed beside an inactive jukebox until it
\* is released, isActive changes exactly once, counting both the keydown
\* listener and the polling in update (the listener, while it is registered,
\* makes that one change at once; with the listener removed by cleanup the
\* polling makes at most one).
C37_OneTogglePerPress ==
    hist.besideInactive => /\ hist.toggles <= 1
                           /\ hist.listened => hist.toggles = 1


\* C38: a TVEntity.toggleTV call made less than 500 ms after the previous
\* accepted toggle is ignored and leaves isActive, lastToggleTime, the modal
\* and the registered key listeners unchanged; after every accepted toggle
\* the YouTube modal exists if and only if isActive is true.
C38_ToggleCooldown ==
    /\ ( /\ hist.kind \in {"accepted", "ignored"}
         /\ hist.before.lastToggle.set
         /\ hist.before.lastToggle.age < TVToggleCooldownMs )
       => /\ hist.kind = "ignored"
          /\ tv.isActive = hist.before.isActive
          /\ tv.lastToggle = hist.before.lastToggle
          /\ tv.youtubePlayer = hist.before.youtubePlayer
          /\ tv.listening = hist.before.listening
          /\ tv.modalListening = hist.before.modalListening
    /\ hist.kind = "accepted"
       => /\ tv.youtubePlayer <=> tv.isActive
          /\ tv.isActive # hist.before.isActive
          /\ tv.lastToggle = [set |-> TRUE, age |-> 0]

\* a call 250 ms after the toggle that switched the TV on, ignored
C38_Witness ==
    /\ hist.kind = "ignored"
    /\ hist.before.isActive
    /\ hist.before.lastToggle.age > 0
    /\ tv.youtubePlayer

\* the TV switched off again by an accepted toggle, the modal gone
C38_WitnessOff ==
    /\ hist.kind = "accepted"
    /\ hist.before.isActive
    /\ hist.before.youtubePlayer
    /\ ~tv.isActive
    /\ ~tv.youtubePlayer

====
